---- MODULE Spec2Model ----
(***************************************************************************)
(* Collaborative canvas: the room-scoped action log (DrawingState), the    *)
(* room registry (RoomManager), the persistence of logs (saveState /       *)
(* loadState), the server's message handlers (server.js) and the client's  *)
(* canvas (CanvasManager.applyState / rebuild / clear).                    *)
(*                                                                         *)
(* Abstractions.  A stroke's payload (tool, colour, size, path, anchor) is *)
(* one natural number, the stroke's identity; 0 is the payload of a clear  *)
(* action (all fields undefined).  A canvas is the set of strokes painted  *)
(* on it (pixel rendering is outside the model).  User names are left out. *)
(* A message a client sends is handled by the server in the same step (the *)
(* server handles one message at a time, in arrival order); messages from  *)
(* the server to a client wait in a FIFO queue per connection.  A file     *)
(* write asked for by saveState completes either at once or in a later     *)
(* step, and writes to one file complete in any order.                     *)
(***************************************************************************)
EXTENDS Integers, Sequences, FiniteSets, TLC

\* ---- bounds of the model ------------------------------------------------
\* DrawingState.maxActions is 1000 in the source (drawing-state.js:19); the
\* model keeps the same code with a small cap so that truncation happens.
maxActions == 3
\* strokes and clears ever created
MaxCreated == 4
\* strokes and clears created in a run of the server with its clients
MaxDrawn == 2
\* messages waiting for one client
MaxQueue == 1
\* asynchronous file writes in flight
MaxPending == 1
\* the browser: points of one stroke, the step and the end of its clock
\* while drawing, the step and the end of its clock while reconnecting
MaxMoves == 3
Tick == 8
MaxNow == 104
Second == 1000
MaxWait == 33000
\* pings on their way at a time, and the time up to which pings are followed
MaxPongs == 2
MaxPingTime == 9000
\* actions in the log of the room whose rebuilds are followed
RebuildLogLen == 16
\* actions of that log that are undone at a time
MaxUndone == 3

\* ---- program constants --------------------------------------------------
MaxPathLen == 10000
MaxCoord == 10000
snapshotInterval == 15
maxSnapshots == 10

Conns == {"c1", "c2"}
RoomId == {"R1", "R2"}
Null == "null"
Undefined == "undefined"
Absent == "absent"

\* raw roomId fields of join-room: none, a lower-case id, only punctuation
RawRoomIds == {Null, "r1", "-"}
\* those that name a room
NamedRoomIds == {"r1"}
\* the rooms whose logs SpecLog follows
LogRooms == {"R1"}
\* msg.path of draw-end: -1 is a value that is not an array, else its length
PathInputs == {-1, 2, 10001}

\* a position { x, y }: isNumber says that both are of type number, abs is
\* the greater of Math.abs(x) and Math.abs(y)
\* the text of an inbound frame: one that is not JSON, JSON values without a
\* type, and messages of a type that has no handler, of the legacy types
\* and of type ping, a join-room whose roomId is a number and a draw-batch
\* whose moves hold null
Payloads ==
  {"{oops", "null", "{}", "{type:''}", "{type:'bogus'}", "{type:'undo'}",
   "{type:'redo'}", "{type:'ping'}", "{type:'join-room',roomId:7}",
   "{type:'draw-batch',moves:[null]}"}
\* values of the smoothed round-trip time, in ms
Latencies == {40, 50, 99, 100, 149, 150, 180, 199, 200}
\* what the user types into the join dialog
Usernames == {"ann"}
TypedRoomIds == {Null, "R1"}
MoveInputs ==
  {[isNumber |-> TRUE, abs |-> 5], [isNumber |-> TRUE, abs |-> 10001],
   [isNumber |-> FALSE, abs |-> 0]}
\* msg.moves of draw-batch; <<>> also stands for a value that is not an array
BatchInputs ==
  {<<>>} \cup {<<m>> : m \in MoveInputs}
         \cup {<<[isNumber |-> FALSE, abs |-> 0], [isNumber |-> TRUE, abs |-> 5]>>}

VARIABLES
  rooms,          \* RoomManager.rooms: room id -> resident?, users
  states,         \* DrawingStateManager.states: room id -> DrawingState
  disk,           \* data/rooms/<id>.json: room id -> persisted text
  writes,         \* fs.writeFile calls whose callback has not run yet
  ws,             \* per connection: ws.roomId, ws.readyState
  s2c,            \* per connection: messages sent by the server, not yet handled
  canvas,         \* per client: strokes painted on the canvas
  snapshotCache,  \* per client: CanvasManager.snapshotCache
  clientUserId,   \* per client: WebSocketClient.userId
  created,        \* history: number of strokes and clears created so far
  maxAssigned,    \* history: per room, greatest id its DrawingState object handed out
  clearedAt,      \* history: per room, value of created at the object's last clear()
  lastOp,         \* history: the last call made on the DrawingStateManager
  req,            \* history: the message the server handled last
  calls,          \* history: what that handler called, in the order of the code
  evicted,        \* history: per room, the DrawingState deleted at its last eviction
  cm,             \* one browser: CanvasManager's drawing and batching fields
  wsc,            \* one browser: WebSocketClient's connection fields
  now,            \* one browser: performance.now(), in ms
  c2s,            \* history: the browser's last step, the messages it sent in it,
                  \*          when it last sent a draw-move (-1: never), and the
                  \*          latest move of the stroke among those it has sent
  held,           \* history: the username entered and the room of the last room-joined,
                  \*          and whether disconnect() was called since the user joined
  gid,            \* Room.generateId: its loop counter i and its local id
  pongs,          \* one browser: the timestamps of its pings that are on their
                  \*              way, as ping or as the server's pong, in order
  userLeft        \* history: userLeft[c][d], the user-left messages about c
                  \*          that the server wrote to the socket of d

vars == <<rooms, states, disk, writes, ws, s2c, canvas, snapshotCache,
          clientUserId, created, maxAssigned, clearedAt, lastOp, req, calls,
          evicted, cm, wsc, now, c2s, held, gid, pongs, userLeft>>

\* ---- small helpers ------------------------------------------------------
Max(S) == CHOOSE x \in S : \A y \in S : y <= x
Min(S) == CHOOSE x \in S : \A y \in S : x <= y
Range(s) == {s[i] : i \in 1..Len(s)}

\* Array.prototype.slice(-n)
SliceLast(s, n) == IF Len(s) <= n THEN s ELSE SubSeq(s, Len(s) - n + 1, Len(s))
\* Array.prototype.slice(0, n)
SliceFirst(s, n) == IF Len(s) <= n THEN s ELSE SubSeq(s, 1, n)

\* Array.prototype.filter(a => !a.undone)
RECURSIVE FilterActive(_)
FilterActive(s) ==
  IF s = <<>> THEN <<>>
  ELSE IF s[1].undone THEN FilterActive(Tail(s))
       ELSE <<s[1]>> \o FilterActive(Tail(s))

\* ---- DrawingState -------------------------------------------------------
NoState == [exists |-> FALSE, actions |-> <<>>, actionIdCounter |-> 0]

\* constructor
NewDrawingState == [exists |-> TRUE, actions |-> <<>>, actionIdCounter |-> 0]

\* the trim of addAction: keep the most recent maxActions entries
TrimOldest(s) == SliceFirst(s, maxActions)
Trim(s) == IF Len(s) > maxActions THEN SliceLast(s, maxActions) ELSE s

addActionNoCount(st, action) ==
  [st EXCEPT !.actions = Trim(Append(@,
      [id |-> st.actionIdCounter + 1, userId |-> action.userId,
       type |-> action.type, payload |-> action.payload,
       timestamp |-> "Date", undone |-> FALSE]))]
addAction(st, action) ==
  LET newAction == [id |-> st.actionIdCounter + 1,
                    userId |-> action.userId,
                    type |-> action.type,
                    payload |-> action.payload,
                    timestamp |-> "Date",
                    undone |-> FALSE]
  IN [st EXCEPT !.actionIdCounter = @ + 1,
                !.actions = Trim(Append(@, newAction))]

\* the scan of undoGlobal: index of the action it flips, 0 for "return null"
RECURSIVE undoGlobalScan(_, _)
undoGlobalScan(actions, i) ==
  IF i < 1 THEN 0
  ELSE IF ~actions[i].undone /\ actions[i].type # "clear" THEN i
       ELSE undoGlobalScan(actions, i - 1)
undoGlobalOldest(st) ==
  LET S == {i \in 1..Len(st.actions) :
              ~st.actions[i].undone /\ st.actions[i].type # "clear"}
  IN IF S = {} THEN 0 ELSE Min(S)
undoGlobal(st) == undoGlobalScan(st.actions, Len(st.actions))

\* the scan of undoForUser
RECURSIVE undoForUserScan(_, _, _)
undoForUserScan(actions, userId, i) ==
  IF i < 1 THEN 0
  ELSE IF actions[i].userId = userId /\ ~actions[i].undone
          /\ actions[i].type # "clear" THEN i
       ELSE undoForUserScan(actions, userId, i - 1)
undoForUserAnyAuthor(st, userId) == undoGlobal(st)
undoForUser(st, userId) == undoForUserScan(st.actions, userId, Len(st.actions))

\* the scan of redoGlobal
RECURSIVE redoGlobalScan(_, _)
redoGlobalScan(actions, i) ==
  IF i < 1 THEN 0
  ELSE IF actions[i].undone /\ actions[i].type # "clear" THEN i
       ELSE redoGlobalScan(actions, i - 1)
redoGlobal(st) == redoGlobalScan(st.actions, Len(st.actions))

\* this.actions[i].undone = flag   (i = 0: nothing was found)
SetUndone(st, i, flag) ==
  IF i = 0 THEN st ELSE [st EXCEPT !.actions[i].undone = flag]

clearKeepActions(st) == [st EXCEPT !.actionIdCounter = 0]
clear(st) == [st EXCEPT !.actions = <<>>, !.actionIdCounter = 0]

getActiveActions(st) == FilterActive(st.actions)

\* ---- the persisted record -----------------------------------------------
\* JSON.stringify of one action: a Date becomes an ISO string, a property
\* whose value is undefined is left out
StringifyAction(a) ==
  [a EXCEPT !.userId = IF @ = Undefined THEN Absent ELSE @,
            !.timestamp = "ISO"]
\* JSON.parse of one action: reading a property that is left out gives undefined
ParseAction(j) ==
  [j EXCEPT !.userId = IF @ = Absent THEN Undefined ELSE @]

NoFile == [exists |-> FALSE, actions |-> <<>>, actionIdCounter |-> 0]

\* JSON.stringify(state.toJSON())
toJSON(st) ==
  [exists |-> TRUE,
   actions |-> [i \in 1..Len(st.actions) |-> StringifyAction(st.actions[i])],
   actionIdCounter |-> st.actionIdCounter]

\* DrawingState.fromJSON(JSON.parse(data));  x || 0 is x for every number x
fromJSONCountLength(data) ==
  [exists |-> TRUE,
   actions |-> [i \in 1..Len(data.actions) |-> ParseAction(data.actions[i])],
   actionIdCounter |-> Len(data.actions)]
fromJSON(data) ==
  [exists |-> TRUE,
   actions |-> [i \in 1..Len(data.actions) |-> ParseAction(data.actions[i])],
   actionIdCounter |-> IF data.actionIdCounter = 0 THEN 0
                       ELSE data.actionIdCounter]


\* ---- isValidDrawData (draw-end) -----------------------------------------
\* Array.isArray(data.path) && data.path.length <= 10000
isValidDrawDataNoCap(pathLen) == pathLen >= 0
isValidDrawData(pathLen) == pathLen >= 0 /\ pathLen <= MaxPathLen

\* isValidDrawData for draw-start and draw-move
isValidDrawMove(m) == m.isNumber /\ m.abs <= MaxCoord

\* ---- join-room: sanitizing of msg.roomId --------------------------------
\* roomId ? roomId.toUpperCase().replace(/[^A-Z0-9]/g, '').slice(0, 10) : null
sanitizeRoomId(raw) ==
  CASE raw = Null -> Null
    [] raw = "r1" -> "R1"
    [] raw = "-"  -> ""
\* JavaScript truthiness of a room id
Truthy(roomId) == roomId # Null /\ roomId # ""
\* ---- Room.generateId ----------------------------------------------------
\* const chars = 'ABCDEFGHJKLMNPQRSTUVWXYZ23456789', one character an entry
chars ==
  <<"A", "B", "C", "D", "E", "F", "G", "H", "J", "K", "L", "M", "N", "P", "Q",
    "R", "S", "T", "U", "V", "W", "X", "Y", "Z", "2", "3", "4", "5", "6", "7",
    "8", "9">>
\* the loop runs while i < 6
IdLength == 6
\* values of Math.floor(Math.random() * chars.length) the model draws
RandomIndexes == {0, 10, 11, 31}
\* no call of generateId has been made; id holds what the last call returned
NoGenerateId == [pc |-> "returned", i |-> 0, id |-> <<>>]
\* let id = ''; for (let i = 0; ...
generateIdEnter == [pc |-> "loop", i |-> 0, id |-> <<>>]
\* id += chars[index]; i++   (chars[] counts from 0)
generateIdLoop(g, index) ==
  [g EXCEPT !.id = Append(@, chars[index + 1]), !.i = @ + 1]
\* return id
generateIdReturn(g) == [g EXCEPT !.pc = "returned"]

\* new Room(id): this.id = id || this.generateId(), which draws gen
newRoomIdGenerated(id, gen) == gen
newRoomId(id, gen) == IF Truthy(id) THEN id ELSE gen

\* ---- messages from the server -------------------------------------------
NoMsg ==
  [type |-> "", roomId |-> "", userId |-> "", users |-> {}, userCount |-> 0,
   actions |-> <<>>, payload |-> 0, undoType |-> "", affectedActionId |-> 0,
   message |-> ""]

\* JSON.stringify of getState(): all actions, with their undone flags
WireActions(st) == [i \in 1..Len(st.actions) |-> StringifyAction(st.actions[i])]
WireActiveActions(st) == WireActions([st EXCEPT !.actions = FilterActive(@)])

RoomJoinedMsg(roomId, userId, users) ==
  [NoMsg EXCEPT !.type = "room-joined", !.roomId = roomId, !.userId = userId,
                !.users = users]
StateSyncMsg(st) ==
  [NoMsg EXCEPT !.type = "state-sync", !.actions = WireActions(st)]
UserJoinedMsg(userId, n) ==
  [NoMsg EXCEPT !.type = "user-joined", !.userId = userId, !.userCount = n]
UserLeftMsgCountBefore(userId, n) ==
  [NoMsg EXCEPT !.type = "user-left", !.userId = userId, !.userCount = n + 1]
UserLeftMsg(userId, n) ==
  [NoMsg EXCEPT !.type = "user-left", !.userId = userId, !.userCount = n]
\* sendError(ws, msg) and the reply to ping
ErrorMsg(text) == [NoMsg EXCEPT !.type = "error", !.message = text]
PongMsg == [NoMsg EXCEPT !.type = "pong"]
DrawEndMsg(userId, payload) ==
  [NoMsg EXCEPT !.type = "draw-end", !.userId = userId, !.payload = payload]
CanvasClearMsg(userId) ==
  [NoMsg EXCEPT !.type = "canvas-clear", !.userId = userId]
\* draw-start / draw-move as relayed; payload stands for the position
DrawMoveMsg(type, userId, m) ==
  [NoMsg EXCEPT !.type = type, !.userId = userId, !.payload = m.abs]
CursorMoveMsg(userId, m) ==
  [NoMsg EXCEPT !.type = "cursor-move", !.userId = userId, !.payload = m.abs]
CanvasRebuildActiveOnly(st, undoType, affectedAction) ==
  [NoMsg EXCEPT !.type = "canvas-rebuild", !.actions = WireActiveActions(st),
                !.undoType = undoType, !.affectedActionId = affectedAction.id]
CanvasRebuildMsg(st, undoType, affectedAction) ==
  [NoMsg EXCEPT !.type = "canvas-rebuild", !.actions = WireActions(st),
                !.undoType = undoType, !.affectedActionId = affectedAction.id]

\* send(ws, data): only to an open socket
send(q, c, data) ==
  IF ws[c].readyState = "OPEN" THEN [q EXCEPT ![c] = Append(@, data)] ELSE q

\* roomManager.getUsers(roomId): the users of a resident room, else none
getUsers(rms, roomId) ==
  IF roomId \in RoomId /\ rms[roomId].resident THEN rms[roomId].users ELSE {}

\* broadcast(roomId, data, excludeId) over the users of the room
broadcast(q, users, data, excludeId) ==
  [u \in Conns |->
     IF u \in users /\ u # excludeId /\ ws[u].readyState = "OPEN"
     THEN Append(q[u], data) ELSE q[u]]

\* the model's cap on the FIFO queues: a handler runs when fewer than
\* MaxQueue messages wait for each client it sends to
QueuesFit(q) == \A c \in Conns : Len(q[c]) > Len(s2c[c]) => Len(s2c[c]) < MaxQueue

\* ---- saveState / loadState ----------------------------------------------
\* The file system: [disk, writes].  saveState(roomId) builds the text now;
\* fs.writeFile completes at once (fast) or stays in flight.
saveState(fs, sts, roomId, fast) ==
  IF ~sts[roomId].exists THEN fs
  ELSE IF fast THEN [fs EXCEPT !.disk[roomId] = toJSON(sts[roomId])]
  ELSE [fs EXCEPT !.writes = @ \cup {[roomId |-> roomId, data |-> toJSON(sts[roomId])]}]
WritesFit(fs) == Cardinality(fs.writes) <= MaxPending

\* loadState(roomId) returns true: the file exists and parses
canLoad(roomId, readOk) == disk[roomId].exists /\ readOk
\* a read can fail to parse only while a write to the file is in flight
ReadOutcome(roomId, readOk) == readOk \/ (\E w \in writes : w.roomId = roomId)

\* the callback of fs.writeFile: writes to one file complete in any order
WriteComplete(w) ==
  /\ w \in writes
  /\ disk' = [disk EXCEPT ![w.roomId] = w.data]
  /\ writes' = writes \ {w}

\* ---- DrawingStateManager -------------------------------------------------
\* createState(roomId): a new DrawingState unless the map has one
createState(sts, roomId) ==
  IF sts[roomId].exists THEN sts ELSE [sts EXCEPT ![roomId] = NewDrawingState]

\* loadState(roomId): states.set(roomId, fromJSON(parsed)) when it returns true
loadState(sts, roomId, readOk) ==
  IF canLoad(roomId, readOk) THEN [sts EXCEPT ![roomId] = fromJSON(disk[roomId])]
  ELSE sts

\* deleteState(roomId)
deleteState(sts, roomId) == [sts EXCEPT ![roomId] = NoState]

\* addAction(roomId, action): the state is created when the map has none
managerAddAction(sts, roomId, action) ==
  [sts EXCEPT ![roomId] =
     addAction(IF @.exists THEN @ ELSE NewDrawingState, action)]

\* clearState(roomId): clear(), then addAction({ type: 'clear' })
clearStateKeepCounter(sts, roomId) ==
  IF sts[roomId].exists
  THEN [sts EXCEPT ![roomId] =
          addAction([@ EXCEPT !.actions = <<>>],
                    [userId |-> Undefined, type |-> "clear", payload |-> 0])]
  ELSE sts
clearState(sts, roomId) ==
  IF sts[roomId].exists
  THEN [sts EXCEPT ![roomId] =
          addAction(clear(@), [userId |-> Undefined, type |-> "clear", payload |-> 0])]
  ELSE sts

\* the strokes of a log, and those that are not undone
StrokesOf(actions) ==
  {actions[i].payload : i \in {j \in 1..Len(actions) : actions[j].type # "clear"}}
ActiveStrokes(actions) == StrokesOf(FilterActive(actions))

\* ---- CanvasManager: constructor, lines 359-383 ---------------------------
\* currentPath is the number of points of the path, pendingDrawData the
\* number of the point it holds (0: null), moveBatch the numbers of the points
\* it holds; rafId.kind says which of the two callbacks of
\* sendDrawMoveAdaptive is scheduled and throttleMs is the value it closed over
NoRaf == [kind |-> "none", throttleMs |-> 0]
NewCanvasManager ==
  [isDrawing |-> FALSE, currentPath |-> 0, pendingDrawData |-> 0,
   rafId |-> NoRaf, moveBatch |-> <<>>, lastDrawEvent |-> 0]

\* ---- WebSocketClient: constructor, lines 3-15 ----------------------------
\* readyState "NONE": this.ws is null; timer: the setTimeout of tryReconnect;
\* closing: a socket that disconnect() closed has its close event to come
NoTimer == [set |-> FALSE, delay |-> 0, due |-> 0]
\* pingInterval: the setInterval of startLatencyMeasurement
NoInterval == [set |-> FALSE, due |-> 0]
NewWebSocketClient ==
  [readyState |-> "NONE", roomId |-> Null, username |-> Null,
   reconnectAttempts |-> 0, latency |-> 50, timer |-> NoTimer,
   pingInterval |-> NoInterval, pingTimestamp |-> 0, latencyHistory |-> <<>>,
   closing |-> FALSE]

\* ---- initial state ------------------------------------------------------
NoRoom == [resident |-> FALSE, users |-> {}]
\* op: the method; affected: the id of the action it returned (0: null);
\* before: for undoGlobal, the strokes that were active when it was called
NoOp == [op |-> "", roomId |-> "", userId |-> "", affected |-> 0, before |-> {}]
\* type: msg.type; from: the connection; roomId: msg.roomId as sent;
\* pathLen: msg.path; moves: msg.moves, or the one position of a single move
NoReq ==
  [type |-> "", from |-> "", roomId |-> "", pathLen |-> 0, moves |-> <<>>,
   data |-> ""]

Init ==
  /\ rooms = [r \in RoomId |-> NoRoom]
  /\ states = [r \in RoomId |-> NoState]
  /\ disk = [r \in RoomId |-> NoFile]
  /\ writes = {}
  /\ ws = [c \in Conns |-> [roomId |-> Null, readyState |-> "OPEN", isAlive |-> TRUE]]
  /\ s2c = [c \in Conns |-> <<>>]
  /\ canvas = [c \in Conns |-> {}]
  /\ snapshotCache = [c \in Conns |-> {}]
  /\ clientUserId = [c \in Conns |-> Undefined]
  /\ created = 0
  /\ maxAssigned = [r \in RoomId |-> 0]
  /\ clearedAt = [r \in RoomId |-> 0]
  /\ lastOp = NoOp
  /\ req = NoReq
  /\ calls = <<>>
  /\ evicted = [r \in RoomId |-> NoState]
  /\ cm = NewCanvasManager
  /\ wsc = NewWebSocketClient
  /\ now = 0
  /\ c2s = [step |-> "", out |-> <<>>, moveAt |-> -1, latest |-> 0]
  /\ held = [username |-> Null, roomId |-> Null, disconnected |-> FALSE]
  /\ gid = NoGenerateId
  /\ pongs = <<>>
  /\ userLeft = [c \in Conns |-> [d \in Conns |-> 0]]

stateVars == <<states, disk, writes>>
connVars == <<rooms, ws, s2c>>
browserVars == <<cm, wsc, now, c2s, held>>
clientVars == <<canvas, snapshotCache, clientUserId, browserVars>>
histVars == <<maxAssigned, clearedAt, lastOp, req, calls, evicted>>

\* ==== the server's handlers (server.js) ===================================
\* A handler changes rooms, states, disk, writes, ws and s2c; what the
\* sending client does to itself is a separate conjunct of the step.

\* ---- handleJoinRoom -----------------------------------------------------
\* gen is the id Room.generateId() draws; readOk is false when loadState
\* reads a file that a write in flight has truncated (JSON.parse throws)
handleJoinRoom(c, raw, gen, readOk) ==
  LET roomId == sanitizeRoomId(raw)
      found == Truthy(roomId) /\ rooms[roomId].resident
      rid == newRoomId(roomId, gen)
      \* createRoom: rooms.set(room.id, new Room)
      rooms1 == IF found THEN rooms
                ELSE [rooms EXCEPT ![rid] = [resident |-> TRUE, users |-> {}]]
      states1 == IF found THEN states
                 ELSE IF canLoad(rid, readOk) THEN loadState(states, rid, readOk)
                 ELSE createState(states, rid)
      rooms2 == [rooms1 EXCEPT ![rid].users = @ \cup {c}]
      users == rooms2[rid].users
      q1 == send(s2c, c, RoomJoinedMsg(rid, c, users))
      q2 == IF Len(states1[rid].actions) > 0
            THEN send(q1, c, StateSyncMsg(states1[rid])) ELSE q1
      q3 == broadcast(q2, users, UserJoinedMsg(c, Cardinality(users)), c)
  IN /\ ws[c].readyState = "OPEN"
     /\ ReadOutcome(rid, readOk)
     /\ QueuesFit(q3)
     /\ rooms' = rooms2
     /\ states' = states1
     /\ ws' = [ws EXCEPT ![c].roomId = rid]
     /\ s2c' = q3
     /\ UNCHANGED <<disk, writes>>

\* ---- handleDrawEvent, for draw-end --------------------------------------
\* stroke is the payload of the message
handleDrawEnd(c, pathLen, stroke, fast) ==
  LET r == ws[c].roomId
      sts1 == managerAddAction(states, r,
                 [userId |-> c, type |-> "draw-end", payload |-> stroke])
      fs1 == saveState([disk |-> disk, writes |-> writes], sts1, r, fast)
      q1 == broadcast(s2c, getUsers(rooms, r), DrawEndMsg(c, stroke), c)
  IN /\ ws[c].readyState = "OPEN"
     /\ IF r = Null \/ ~isValidDrawData(pathLen)
        THEN UNCHANGED <<stateVars, connVars>>
        ELSE /\ WritesFit(fs1) /\ QueuesFit(q1)
             /\ states' = sts1
             /\ disk' = fs1.disk
             /\ writes' = fs1.writes
             /\ s2c' = q1
             /\ UNCHANGED <<rooms, ws>>

\* ---- handleCanvasClear --------------------------------------------------
handleCanvasClear(c, fast) ==
  LET r == ws[c].roomId
      sts1 == clearState(states, r)
      q1 == broadcast(s2c, getUsers(rooms, r), CanvasClearMsg(c), Null)
      fs1 == saveState([disk |-> disk, writes |-> writes], sts1, r, fast)
  IN /\ ws[c].readyState = "OPEN"
     /\ IF r = Null
        THEN UNCHANGED <<stateVars, connVars>>
        ELSE /\ WritesFit(fs1) /\ QueuesFit(q1)
             /\ states' = sts1
             /\ s2c' = q1
             /\ disk' = fs1.disk
             /\ writes' = fs1.writes
             /\ UNCHANGED <<rooms, ws>>

\* ---- handleUndoGlobal / handleUndoMy / handleRedoGlobal -----------------
\* i is the index of the action the log operation returned (0: null)
UndoRedoAlwaysBroadcasts(c, i, flag, undoType, fast) ==
  LET r == ws[c].roomId
      sts1 == [states EXCEPT ![r] = SetUndone(@, i, flag)]
      q1 == broadcast(s2c, getUsers(rooms, r),
                      CanvasRebuildMsg(sts1[r], undoType,
                         IF i = 0 THEN [id |-> 0] ELSE sts1[r].actions[i]), Null)
      fs1 == saveState([disk |-> disk, writes |-> writes], sts1, r, fast)
  IN /\ WritesFit(fs1) /\ QueuesFit(q1)
     /\ states' = sts1
     /\ s2c' = q1
     /\ disk' = fs1.disk
     /\ writes' = fs1.writes
     /\ UNCHANGED <<rooms, ws>>
UndoRedo(c, i, flag, undoType, fast) ==
  LET r == ws[c].roomId
      sts1 == [states EXCEPT ![r] = SetUndone(@, i, flag)]
      q1 == broadcast(s2c, getUsers(rooms, r),
                      CanvasRebuildMsg(sts1[r], undoType, sts1[r].actions[i]), Null)
      fs1 == saveState([disk |-> disk, writes |-> writes], sts1, r, fast)
  IN IF i = 0
     THEN UNCHANGED <<stateVars, connVars>>
     ELSE /\ WritesFit(fs1) /\ QueuesFit(q1)
          /\ states' = sts1
          /\ s2c' = q1
          /\ disk' = fs1.disk
          /\ writes' = fs1.writes
          /\ UNCHANGED <<rooms, ws>>

handleUndoGlobal(c, fast) ==
  /\ ws[c].readyState = "OPEN"
  /\ IF ws[c].roomId = Null THEN UNCHANGED <<stateVars, connVars>>
     ELSE UndoRedo(c, undoGlobal(states[ws[c].roomId]), TRUE, "global", fast)

handleUndoMy(c, fast) ==
  /\ ws[c].readyState = "OPEN"
  /\ IF ws[c].roomId = Null THEN UNCHANGED <<stateVars, connVars>>
     ELSE UndoRedo(c, undoForUser(states[ws[c].roomId], c), TRUE, "my", fast)

handleRedoGlobal(c, fast) ==
  /\ ws[c].readyState = "OPEN"
  /\ IF ws[c].roomId = Null THEN UNCHANGED <<stateVars, connVars>>
     ELSE UndoRedo(c, redoGlobal(states[ws[c].roomId]), FALSE, "redo", fast)

\* ---- ws.on('close') -> handleDisconnect ---------------------------------
\* The socket is closed: what the server had sent and the client had not
\* handled is lost.
handleDisconnect(c, fast) ==
  LET r == ws[c].roomId
      q0 == [s2c EXCEPT ![c] = <<>>]
      rooms1 == [rooms EXCEPT ![r].users = @ \ {c}]
      users == rooms1[r].users
      q1 == broadcast(q0, users, UserLeftMsg(c, Cardinality(users)), Null)
      fs1 == saveState([disk |-> disk, writes |-> writes], states, r, fast)
  IN /\ ws[c].readyState \in {"OPEN", "CLOSING"}
     /\ ws' = [ws EXCEPT ![c].readyState = "CLOSED"]
     /\ IF r = Null \/ ~rooms[r].resident
        THEN /\ s2c' = q0
             /\ UNCHANGED <<rooms, stateVars>>
        ELSE /\ QueuesFit(q1)
             /\ s2c' = q1
             /\ IF users = {}
                THEN /\ WritesFit(fs1)
                     /\ disk' = fs1.disk
                     /\ writes' = fs1.writes
                     /\ rooms' = [rooms EXCEPT ![r] = NoRoom]
                     /\ states' = deleteState(states, r)
                ELSE /\ rooms' = rooms1
                     /\ UNCHANGED stateVars

\* ---- ws.on('error') -> handleDisconnect ---------------------------------
\* The socket fails: it is CLOSING while the handler of 'error' runs, and its
\* 'close' event is still to come.
onError(c, fast) ==
  LET r == ws[c].roomId
      q0 == [s2c EXCEPT ![c] = <<>>]
      rooms1 == [rooms EXCEPT ![r].users = @ \ {c}]
      users == rooms1[r].users
      q1 == broadcast(q0, users, UserLeftMsg(c, Cardinality(users)), Null)
      fs1 == saveState([disk |-> disk, writes |-> writes], states, r, fast)
  IN /\ ws[c].readyState = "OPEN"
     /\ ws' = [ws EXCEPT ![c].readyState = "CLOSING"]
     /\ IF r = Null \/ ~rooms[r].resident
        THEN /\ s2c' = q0
             /\ UNCHANGED <<rooms, stateVars>>
        ELSE /\ QueuesFit(q1)
             /\ s2c' = q1
             /\ IF users = {}
                THEN /\ WritesFit(fs1)
                     /\ disk' = fs1.disk
                     /\ writes' = fs1.writes
                     /\ rooms' = [rooms EXCEPT ![r] = NoRoom]
                     /\ states' = deleteState(states, r)
                ELSE /\ rooms' = rooms1
                     /\ UNCHANGED stateVars

\* ---- handleDrawEvent, for draw-start and draw-move -----------------------
handleDrawMoveEcho(c, type, m) ==
  LET r == ws[c].roomId
      q1 == broadcast(s2c, getUsers(rooms, r), DrawMoveMsg(type, c, m), Null)
  IN /\ ws[c].readyState = "OPEN"
     /\ IF r = Null \/ ~isValidDrawMove(m)
        THEN UNCHANGED <<stateVars, connVars>>
        ELSE /\ QueuesFit(q1)
             /\ s2c' = q1
             /\ UNCHANGED <<stateVars, rooms, ws>>
handleDrawMove(c, type, m) ==
  LET r == ws[c].roomId
      q1 == broadcast(s2c, getUsers(rooms, r), DrawMoveMsg(type, c, m), c)
  IN /\ ws[c].readyState = "OPEN"
     /\ IF r = Null \/ ~isValidDrawMove(m)
        THEN UNCHANGED <<stateVars, connVars>>
        ELSE /\ QueuesFit(q1)
             /\ s2c' = q1
             /\ UNCHANGED <<stateVars, rooms, ws>>

\* ---- handleDrawBatch ----------------------------------------------------
\* the loop over msg.moves: a move whose x or y is not a number is skipped
RECURSIVE batchLoop(_, _, _, _)
batchLoop(q, users, c, moves) ==
  IF moves = <<>> THEN q
  ELSE batchLoop(IF ~moves[1].isNumber THEN q
                 ELSE broadcast(q, users, DrawMoveMsg("draw-move", c, moves[1]), c),
                 users, c, Tail(moves))

handleDrawBatch(c, moves) ==
  LET r == ws[c].roomId
      q1 == batchLoop(s2c, getUsers(rooms, r), c, moves)
  IN /\ ws[c].readyState = "OPEN"
     /\ IF r = Null \/ moves = <<>>
        THEN UNCHANGED <<stateVars, connVars>>
        ELSE /\ QueuesFit(q1)
             /\ s2c' = q1
             /\ UNCHANGED <<stateVars, rooms, ws>>

\* ---- handleCursorMove ---------------------------------------------------
handleCursorMoveUnguarded(c, m) ==
  /\ ws[c].readyState = "OPEN"
  /\ s2c' = broadcast(s2c, Conns, CursorMoveMsg(c, m), c)
  /\ QueuesFit(s2c')
  /\ UNCHANGED <<stateVars, rooms, ws>>
handleCursorMove(c, m) ==
  LET r == ws[c].roomId
      q1 == broadcast(s2c, getUsers(rooms, r), CursorMoveMsg(c, m), c)
  IN /\ ws[c].readyState = "OPEN"
     /\ IF r = Null
        THEN UNCHANGED <<stateVars, connVars>>
        ELSE /\ QueuesFit(q1)
             /\ s2c' = q1
             /\ UNCHANGED <<stateVars, rooms, ws>>

\* ---- ws.on('message'), handleMessage ------------------------------------
\* JSON.parse(data) for the payloads of Payloads: ok is FALSE when it throws;
\* truthy is the truthiness of the parsed value, type its type property
JSONparse(data) ==
  CASE data = "{oops"            -> [ok |-> FALSE, truthy |-> FALSE, type |-> Undefined]
    [] data = "null"             -> [ok |-> TRUE, truthy |-> FALSE, type |-> Undefined]
    [] data = "{}"               -> [ok |-> TRUE, truthy |-> TRUE, type |-> Undefined]
    [] data = "{type:''}"        -> [ok |-> TRUE, truthy |-> TRUE, type |-> ""]
    [] data = "{type:'bogus'}"   -> [ok |-> TRUE, truthy |-> TRUE, type |-> "bogus"]
    [] data = "{type:'undo'}"    -> [ok |-> TRUE, truthy |-> TRUE, type |-> "undo"]
    [] data = "{type:'redo'}"    -> [ok |-> TRUE, truthy |-> TRUE, type |-> "redo"]
    [] data = "{type:'ping'}"    -> [ok |-> TRUE, truthy |-> TRUE, type |-> "ping"]
    [] data = "{type:'join-room',roomId:7}"
                                 -> [ok |-> TRUE, truthy |-> TRUE, type |-> "join-room"]
    [] data = "{type:'draw-batch',moves:[null]}"
                                 -> [ok |-> TRUE, truthy |-> TRUE, type |-> "draw-batch"]
\* !msg.type
NoType(type) == type = Undefined \/ type = ""

\* the switch of handleMessage for the types that have no handler of their
\* own action in this model: ping, the legacy undo and redo, and all others
dispatchErrorDefault(c, type, fast) ==
  CASE type = "ping" ->
         /\ s2c' = send(s2c, c, PongMsg)
         /\ QueuesFit(s2c')
         /\ UNCHANGED <<stateVars, rooms, ws>>
    [] type = "undo" -> handleUndoMy(c, fast)
    [] type = "redo" -> handleRedoGlobal(c, fast)
    [] OTHER ->
         /\ s2c' = send(s2c, c, ErrorMsg("Unknown type"))
         /\ QueuesFit(s2c')
         /\ UNCHANGED <<stateVars, rooms, ws>>
dispatch(c, type, fast) ==
  CASE type = "ping" ->
         /\ s2c' = send(s2c, c, PongMsg)
         /\ QueuesFit(s2c')
         /\ UNCHANGED <<stateVars, rooms, ws>>
    [] type = "undo" -> handleUndoMy(c, fast)
    [] type = "redo" -> handleRedoGlobal(c, fast)
    [] OTHER -> UNCHANGED <<stateVars, connVars>>

handleMessageUnchecked(c, msg, fast) == dispatch(c, msg.type, fast)
handleMessage(c, msg, fast) ==
  IF ~msg.truthy \/ NoType(msg.type)
  THEN /\ s2c' = send(s2c, c, ErrorMsg("Missing type"))
       /\ QueuesFit(s2c')
       /\ UNCHANGED <<stateVars, rooms, ws>>
  ELSE dispatch(c, msg.type, fast)

\* the handler that handleMessage calls for this frame throws a TypeError:
\* handleJoinRoom at roomId.toUpperCase() of a number, handleDrawBatch of a
\* connection with a room at move.x of null; neither has done anything yet
Throws(c, data) ==
  \/ data = "{type:'join-room',roomId:7}"
  \/ data = "{type:'draw-batch',moves:[null]}" /\ ws[c].roomId # Null

\* try { handleMessage(ws, JSON.parse(data)) } catch { sendError }
onMessage(c, data, fast) ==
  /\ ws[c].readyState = "OPEN"
  /\ IF ~JSONparse(data).ok \/ Throws(c, data)
     THEN /\ s2c' = send(s2c, c, ErrorMsg("Invalid JSON"))
          /\ QueuesFit(s2c')
          /\ UNCHANGED <<stateVars, rooms, ws>>
     ELSE handleMessage(c, JSONparse(data), fast)

\* ---- heartbeat, ws.on('pong') --------------------------------------------
\* One tick of setInterval over wss.clients (the sockets whose close event
\* has not run): a socket that is not alive is terminated, which leaves it
\* CLOSING until its close event runs; the others are marked and pinged.
heartbeatPingsOnly ==
  ws' = [c \in Conns |->
           IF ws[c].readyState = "CLOSED" THEN ws[c]
           ELSE [ws[c] EXCEPT !.isAlive = FALSE]]
heartbeat ==
  ws' = [c \in Conns |->
           IF ws[c].readyState = "CLOSED" THEN ws[c]
           ELSE IF ~ws[c].isAlive THEN [ws[c] EXCEPT !.readyState = "CLOSING"]
           ELSE [ws[c] EXCEPT !.isAlive = FALSE]]

\* the pong of an open socket arrives
pong(c) ==
  /\ ws[c].readyState = "OPEN"
  /\ ws' = [ws EXCEPT ![c].isAlive = TRUE]

\* ==== the client (CanvasManager, WebSocketClient) =========================
\* A canvas with its snapshot cache: [canvas, cache]; the cache is a set of
\* [key, img] entries, one per key.
Keys(cache) == {e.key : e \in cache}
ImgAt(cache, k) == (CHOOSE e \in cache : e.key = k).img

\* clearCanvas(): fill with white, snapshotCache.clear()
clearCanvas == [canvas |-> {}, cache |-> {}]

\* applyAction(action): a clear wipes the canvas, a stroke is painted
applyAction(cc, action) ==
  IF action.type = "clear" THEN clearCanvas
  ELSE [cc EXCEPT !.canvas = @ \cup {action.payload}]

\* applyState(state): every action that is not undone, onto the canvas as it is
RECURSIVE applyState(_, _)
applyState(cc, actions) ==
  IF actions = <<>> THEN cc
  ELSE applyState(IF actions[1].undone THEN cc ELSE applyAction(cc, actions[1]),
                  Tail(actions))

\* the replay loop of rebuild, from the 0-based index i on
RECURSIVE rebuildLoop(_, _, _)
rebuildLoop(cc, active, i) ==
  IF i >= Len(active) THEN cc
  ELSE LET a == applyAction(cc, active[i + 1])
           b == IF (i + 1) % snapshotInterval = 0 /\ (i + 1) \notin Keys(a.cache)
                THEN [a EXCEPT !.cache = @ \cup {[key |-> i + 1, img |-> a.canvas]}]
                ELSE a
       IN rebuildLoop(b, active, i + 1)

\* rebuild(state)
rebuild(cc, actions) ==
  LET active == FilterActive(actions)
      usable == {k \in Keys(cc.cache) : k <= Len(active)}
      startIndex == IF usable = {} THEN 0 ELSE Max(usable)
      start == [canvas |-> IF usable = {} THEN {} ELSE ImgAt(cc.cache, startIndex),
                cache |-> cc.cache]
      done == rebuildLoop(start, active, startIndex)
  IN IF Len(active) = 0 THEN [canvas |-> {}, cache |-> cc.cache]
     ELSE IF Cardinality(done.cache) > maxSnapshots
          THEN [done EXCEPT !.cache = {e \in @ : e.key # Min(Keys(done.cache))}]
          ELSE done

\* stopDrawing(): the stroke is on the client's own canvas when draw-end is sent
stopDrawing(c, stroke) ==
  /\ canvas' = [canvas EXCEPT ![c] = @ \cup {stroke}]
  /\ UNCHANGED <<snapshotCache, clientUserId>>

\* the clear button: canvasManager.clear(), then sendCanvasClear()
clearClicked(c) ==
  /\ canvas' = [canvas EXCEPT ![c] = {}]
  /\ snapshotCache' = [snapshotCache EXCEPT ![c] = {}]
  /\ UNCHANGED clientUserId

\* the socket has closed: the model stops following the client
clientGone(c) ==
  /\ canvas' = [canvas EXCEPT ![c] = {}]
  /\ snapshotCache' = [snapshotCache EXCEPT ![c] = {}]
  /\ clientUserId' = [clientUserId EXCEPT ![c] = Undefined]

\* WebSocketClient.handleMessage: what a message does to the canvas
Handled(c, msg) ==
  LET cc == [canvas |-> canvas[c], cache |-> snapshotCache[c]]
  IN CASE msg.type = "state-sync" -> applyState(cc, msg.actions)
       [] msg.type = "canvas-rebuild" -> rebuild(cc, msg.actions)
       [] msg.type = "canvas-clear" -> clearCanvas
       [] msg.type = "draw-end" ->
            IF msg.userId # clientUserId[c]
            THEN [cc EXCEPT !.canvas = @ \cup {msg.payload}] ELSE cc
       [] OTHER -> cc

\* ws.onmessage for the message at the head of the queue
Deliver(c) ==
  /\ s2c[c] # <<>>
  /\ LET msg == Head(s2c[c])
         cc == Handled(c, msg)
     IN /\ s2c' = [s2c EXCEPT ![c] = Tail(@)]
        /\ canvas' = [canvas EXCEPT ![c] = cc.canvas]
        /\ snapshotCache' = [snapshotCache EXCEPT ![c] = cc.cache]
        /\ clientUserId' = IF msg.type = "room-joined"
                           THEN [clientUserId EXCEPT ![c] = msg.userId]
                           ELSE clientUserId
  /\ UNCHANGED <<rooms, ws, stateVars, created, histVars, browserVars, gid, pongs, userLeft>>

\* ==== the browser: sending moves, reconnecting ============================
\* ---- what the browser sends ----------------------------------------------
NoSent ==
  [type |-> "", moves |-> <<>>, roomId |-> Null, username |-> Null, timestamp |-> 0]
JoinRoomSent(roomId, username) ==
  [NoSent EXCEPT !.type = "join-room", !.roomId = roomId, !.username = username]
DrawStartSent == [NoSent EXCEPT !.type = "draw-start"]
DrawMoveSent(d) == [NoSent EXCEPT !.type = "draw-move", !.moves = <<d>>]
DrawBatchSent(moves) == [NoSent EXCEPT !.type = "draw-batch", !.moves = moves]
DrawEndSent == [NoSent EXCEPT !.type = "draw-end"]
PingSent(timestamp) == [NoSent EXCEPT !.type = "ping", !.timestamp = timestamp]
\* WebSocketClient.send: only on an open socket
clientSend(w, msg) == IF w.readyState = "OPEN" THEN <<msg>> ELSE <<>>

\* ---- CanvasManager.getAdaptiveThrottle -----------------------------------
getAdaptiveThrottleFlat(latency) ==
  IF latency < 50 THEN 8
  ELSE IF latency < 200 THEN 16
  ELSE 50
getAdaptiveThrottle(latency) ==
  IF latency < 50 THEN 8
  ELSE IF latency < 100 THEN 16
  ELSE IF latency < 200 THEN 32
  ELSE 50

\* ---- CanvasManager.sendDrawMoveAdaptive ----------------------------------
\* the fields after the call; the callback it schedules runs later (raf)
sendDrawMoveAdaptiveAt200(m, drawData, latency) ==
  LET throttleMs == getAdaptiveThrottle(latency)
      m1 == [m EXCEPT !.pendingDrawData = drawData]
  IN IF latency >= 200
     THEN LET m2 == [m1 EXCEPT !.moveBatch = Append(@, drawData)]
          IN IF m2.rafId.kind = "none"
             THEN [m2 EXCEPT !.rafId = [kind |-> "batch", throttleMs |-> throttleMs]]
             ELSE m2
     ELSE IF m1.rafId.kind = "none"
          THEN [m1 EXCEPT !.rafId = [kind |-> "single", throttleMs |-> throttleMs]]
          ELSE m1
sendDrawMoveAdaptive(m, drawData, latency) ==
  LET throttleMs == getAdaptiveThrottle(latency)
      m1 == [m EXCEPT !.pendingDrawData = drawData]
  IN IF latency >= 150
     THEN LET m2 == [m1 EXCEPT !.moveBatch = Append(@, drawData)]
          IN IF m2.rafId.kind = "none"
             THEN [m2 EXCEPT !.rafId = [kind |-> "batch", throttleMs |-> throttleMs]]
             ELSE m2
     ELSE IF m1.rafId.kind = "none"
          THEN [m1 EXCEPT !.rafId = [kind |-> "single", throttleMs |-> throttleMs]]
          ELSE m1

\* the callback of requestAnimationFrame runs at time t: [cm, out]
rafCallback(m, w, t) ==
  LET due == t - m.lastDrawEvent >= m.rafId.throttleMs
  IN IF m.rafId.kind = "batch" /\ due /\ Len(m.moveBatch) > 0
     THEN [cm |-> [m EXCEPT !.moveBatch = <<>>, !.lastDrawEvent = t, !.rafId = NoRaf],
           out |-> clientSend(w, DrawBatchSent(m.moveBatch))]
     ELSE IF m.rafId.kind = "single" /\ due /\ m.pendingDrawData # 0
     THEN [cm |-> [m EXCEPT !.lastDrawEvent = t, !.rafId = NoRaf],
           out |-> clientSend(w, DrawMoveSent(m.pendingDrawData))]
     ELSE [cm |-> [m EXCEPT !.rafId = NoRaf], out |-> <<>>]

\* ---- CanvasManager.startDrawing / draw / stopDrawing: what they send -----
startDrawingSends(m, w) ==
  [cm |-> [m EXCEPT !.isDrawing = TRUE, !.currentPath = 1],
   out |-> clientSend(w, DrawStartSent)]
drawSends(m, w) ==
  IF ~m.isDrawing THEN [cm |-> m, out |-> <<>>]
  ELSE [cm |-> sendDrawMoveAdaptive([m EXCEPT !.currentPath = @ + 1],
                                    m.currentPath + 1, w.latency),
        out |-> <<>>]
stopDrawingSendsUnflushed(m, w) ==
  IF ~m.isDrawing THEN [cm |-> m, out |-> <<>>]
  ELSE [cm |-> [m EXCEPT !.isDrawing = FALSE, !.rafId = NoRaf, !.moveBatch = <<>>,
                         !.currentPath = 0, !.pendingDrawData = 0],
        out |-> clientSend(w, DrawEndSent)]
stopDrawingSends(m, w) ==
  IF ~m.isDrawing THEN [cm |-> m, out |-> <<>>]
  ELSE [cm |-> [m EXCEPT !.isDrawing = FALSE, !.rafId = NoRaf, !.moveBatch = <<>>,
                         !.currentPath = 0, !.pendingDrawData = 0],
        out |-> (IF Len(m.moveBatch) > 0
                 THEN clientSend(w, DrawBatchSent(m.moveBatch)) ELSE <<>>)
                \o clientSend(w, DrawEndSent)]

\* ---- WebSocketClient: latency measurement --------------------------------
\* setInterval(() => this.measureLatency(), 3000)
PingEvery == 3000
maxLatencyHistory == 5
\* Math.round(sum / n) for a sum of non-negative integers
RoundedMean(sum, n) == (2 * sum + n) \div (2 * n)
RECURSIVE SumOf(_)
SumOf(q) == IF q = <<>> THEN 0 ELSE Head(q) + SumOf(Tail(q))

stopLatencyMeasurement(w) == [w EXCEPT !.pingInterval = NoInterval]
\* measureLatency() at time t: [wsc, out]
measureLatency(w, t) ==
  IF w.readyState = "OPEN"
  THEN [wsc |-> [w EXCEPT !.pingTimestamp = t], out |-> clientSend(w, PingSent(t))]
  ELSE [wsc |-> w, out |-> <<>>]
\* startLatencyMeasurement() at time t: [wsc, out]
startLatencyMeasurement(w, t) ==
  LET measured == measureLatency(stopLatencyMeasurement(w), t)
  IN [measured EXCEPT !.wsc.pingInterval = [set |-> TRUE, due |-> t + PingEvery]]
\* the callback of the interval at time t: [wsc, out]
pingIntervalFires(w, t) ==
  LET measured == measureLatency(w, t)
  IN [measured EXCEPT !.wsc.pingInterval.due = t + PingEvery]
\* updateLatency(rtt)
updateLatency(w, rtt) ==
  LET pushed == Append(w.latencyHistory, rtt)
      kept == IF Len(pushed) > maxLatencyHistory THEN Tail(pushed) ELSE pushed
  IN [w EXCEPT !.latencyHistory = kept,
               !.latency = RoundedMean(SumOf(kept), Len(kept))]
\* handleMessage, case 'pong', for the echoed timestamp, at time t
pongSample(w, timestamp, t) == t - w.pingTimestamp
pongHandled(w, timestamp, t) == updateLatency(w, pongSample(w, timestamp, t))

\* ---- WebSocketClient.connect / onopen / onclose / tryReconnect -----------
\* connect(username, roomId): a new socket, CONNECTING
connect(w, username, roomId) ==
  [w EXCEPT !.username = username,
            !.roomId = IF Truthy(roomId) THEN roomId ELSE @,
            !.readyState = "CONNECTING"]
\* ws.onopen at time t: [wsc, out]
onopen(w, t) ==
  LET w1 == [w EXCEPT !.readyState = "OPEN", !.reconnectAttempts = 0]
      started == startLatencyMeasurement(w1, t)
  IN [wsc |-> started.wsc,
      out |-> clientSend(w1, JoinRoomSent(w.roomId, w.username)) \o started.out]
\* tryReconnect() at time t
tryReconnectLinear(w, t) ==
  IF w.reconnectAttempts >= 5 THEN w
  ELSE LET k == w.reconnectAttempts + 1
           delay == 1000 * k
       IN [w EXCEPT !.reconnectAttempts = k,
                    !.timer = [set |-> TRUE, delay |-> delay, due |-> t + delay]]
tryReconnect(w, t) ==
  IF w.reconnectAttempts >= 5 THEN w
  ELSE LET k == w.reconnectAttempts + 1
           delay == 1000 * 2^(k - 1)
       IN [w EXCEPT !.reconnectAttempts = k,
                    !.timer = [set |-> TRUE, delay |-> delay, due |-> t + delay]]
\* ws.onclose at time t
onclose(w, t) ==
  tryReconnect(stopLatencyMeasurement([w EXCEPT !.readyState = "CLOSED"]), t)
\* disconnect(): this.ws.close() and this.ws = null; the handlers of the
\* socket stay on it, and close() of a socket already closed raises nothing
disconnect(w) ==
  [stopLatencyMeasurement(w) EXCEPT
     !.readyState = "NONE",
     !.closing = @ \/ w.readyState \in {"CONNECTING", "OPEN"}]
\* ws.onclose, at time t, of the socket that disconnect() closed
oncloseAfterDisconnect(w, t) ==
  tryReconnect(stopLatencyMeasurement([w EXCEPT !.closing = FALSE]), t)
\* the callback of the timer of tryReconnect
reconnectTimer(w) ==
  IF w.username # Null
  THEN connect([w EXCEPT !.timer = NoTimer], w.username, w.roomId)
  ELSE [w EXCEPT !.timer = NoTimer]
\* handleMessage, case 'room-joined'
roomJoined(w, roomId) == [w EXCEPT !.roomId = roomId]

\* ==== Spec: the server with its clients ===================================
\* Every join-room names a room.  A client draws and clears once it
\* has handled room-joined (the room dialog is gone); a connection that has
\* not joined can send the same messages, which the server drops.
JoinRoom ==
  \E c \in Conns, raw \in NamedRoomIds, gen \in RoomId, readOk \in BOOLEAN :
    /\ handleJoinRoom(c, raw, gen, readOk)
    /\ UNCHANGED <<clientVars, gid, pongs, userLeft, created, histVars>>

DrawEnd ==
  \E c \in Conns, pathLen \in PathInputs, fast \in BOOLEAN :
    /\ IF clientUserId[c] # Undefined
       THEN /\ pathLen >= 0
            /\ created < MaxDrawn
            /\ stopDrawing(c, created + 1)
            /\ created' = created + 1
            /\ UNCHANGED <<browserVars, gid, pongs, userLeft>>
       ELSE /\ ws[c].roomId = Null
            /\ UNCHANGED <<clientVars, gid, pongs, userLeft, created>>
    /\ handleDrawEnd(c, pathLen, created + 1, fast)
    /\ UNCHANGED histVars

CanvasClear ==
  \E c \in Conns, fast \in BOOLEAN :
    /\ IF clientUserId[c] # Undefined
       THEN /\ created < MaxDrawn
            /\ clearClicked(c)
            /\ created' = created + 1
            /\ UNCHANGED <<browserVars, gid, pongs, userLeft>>
       ELSE /\ ws[c].roomId = Null
            /\ UNCHANGED <<clientVars, gid, pongs, userLeft, created>>
    /\ handleCanvasClear(c, fast)
    /\ UNCHANGED histVars

UndoGlobal ==
  \E c \in Conns, fast \in BOOLEAN :
    handleUndoGlobal(c, fast) /\ UNCHANGED <<clientVars, gid, pongs, userLeft, created, histVars>>
UndoMy ==
  \E c \in Conns, fast \in BOOLEAN :
    handleUndoMy(c, fast) /\ UNCHANGED <<clientVars, gid, pongs, userLeft, created, histVars>>
RedoGlobal ==
  \E c \in Conns, fast \in BOOLEAN :
    handleRedoGlobal(c, fast) /\ UNCHANGED <<clientVars, gid, pongs, userLeft, created, histVars>>

Disconnect ==
  \E c \in Conns, fast \in BOOLEAN :
    /\ handleDisconnect(c, fast) /\ clientGone(c)
    /\ UNCHANGED <<created, histVars, browserVars, gid, pongs, userLeft>>

Receive == \E c \in Conns : Deliver(c)

\* the callback of a file write runs
Written ==
  \E w \in writes :
    /\ WriteComplete(w)
    /\ UNCHANGED <<states, connVars, clientVars, gid, pongs, userLeft, created, histVars>>

Next ==
  \/ JoinRoom
  \/ DrawEnd
  \/ CanvasClear
  \/ UndoGlobal
  \/ UndoMy
  \/ RedoGlobal
  \/ Disconnect
  \/ Receive
  \/ Written

Spec == Init /\ [][Next]_vars

\* ==== SpecLog: the DrawingStateManager under any sequence of calls =========
\* The callers are the connections' ids (ws.id).  The history variables
\* follow the DrawingState object a room has in the map.
IdsOf(actions) == {actions[i].id : i \in 1..Len(actions)}
ActiveIds(st) == IdsOf(getActiveActions(st))
LastOf(actions) == actions[Len(actions)]
AffectedId(st, i) == IF i = 0 THEN 0 ELSE st.actions[i].id

LogFrame == UNCHANGED <<connVars, clientVars, gid, pongs, userLeft, req, calls, evicted>>
Called(op, r, u, affected, before) ==
  lastOp' = [op |-> op, roomId |-> r, userId |-> u, affected |-> affected,
             before |-> before]

LogCreate(r) ==
  /\ states' = createState(states, r)
  /\ Called("createState", r, "", 0, {})
  /\ UNCHANGED <<disk, writes, created, maxAssigned, clearedAt>>
  /\ LogFrame

LogLoad(r, readOk) ==
  /\ ReadOutcome(r, readOk)
  /\ states' = loadState(states, r, readOk)
  /\ Called("loadState", r, "", 0, {})
  /\ IF canLoad(r, readOk)
     THEN /\ maxAssigned' = [maxAssigned EXCEPT ![r] = Max(IdsOf(states'[r].actions) \cup {0})]
          /\ clearedAt' = [clearedAt EXCEPT ![r] = 0]
     ELSE UNCHANGED <<maxAssigned, clearedAt>>
  /\ UNCHANGED <<disk, writes, created>>
  /\ LogFrame

LogAdd(r, u) ==
  /\ created < MaxCreated
  /\ states' = managerAddAction(states, r,
                  [userId |-> u, type |-> "draw-end", payload |-> created + 1])
  /\ created' = created + 1
  /\ maxAssigned' = [maxAssigned EXCEPT ![r] = Max({@, LastOf(states'[r].actions).id})]
  /\ Called("addAction", r, u, 0, {})
  /\ UNCHANGED <<disk, writes, clearedAt>>
  /\ LogFrame

LogClear(r) ==
  /\ created < MaxCreated
  /\ states' = clearState(states, r)
  /\ Called("clearState", r, "", 0, {})
  /\ IF states[r].exists
     THEN /\ created' = created + 1
          /\ maxAssigned' = [maxAssigned EXCEPT ![r] = Max({@, LastOf(states'[r].actions).id})]
          /\ clearedAt' = [clearedAt EXCEPT ![r] = Max({@} \cup StrokesOf(states[r].actions))]
     ELSE UNCHANGED <<created, maxAssigned, clearedAt>>
  /\ UNCHANGED <<disk, writes>>
  /\ LogFrame

LogUndoGlobal(r) ==
  LET i == undoGlobal(states[r])
  IN /\ states' = [states EXCEPT ![r] = SetUndone(@, i, TRUE)]
     /\ Called("undoGlobal", r, "", AffectedId(states[r], i), ActiveIds(states[r]))
     /\ UNCHANGED <<disk, writes, created, maxAssigned, clearedAt>>
     /\ LogFrame

LogUndoForUser(r, u) ==
  LET i == undoForUser(states[r], u)
  IN /\ states' = [states EXCEPT ![r] = SetUndone(@, i, TRUE)]
     /\ Called("undoForUser", r, u, AffectedId(states[r], i), {})
     /\ UNCHANGED <<disk, writes, created, maxAssigned, clearedAt>>
     /\ LogFrame

LogRedoGlobal(r) ==
  LET i == redoGlobal(states[r])
  IN /\ states' = [states EXCEPT ![r] = SetUndone(@, i, FALSE)]
     /\ Called("redoGlobal", r, "", AffectedId(states[r], i), {})
     /\ UNCHANGED <<disk, writes, created, maxAssigned, clearedAt>>
     /\ LogFrame

LogDelete(r) ==
  /\ states[r].exists
  /\ states' = deleteState(states, r)
  /\ Called("deleteState", r, "", 0, {})
  /\ maxAssigned' = [maxAssigned EXCEPT ![r] = 0]
  /\ clearedAt' = [clearedAt EXCEPT ![r] = 0]
  /\ UNCHANGED <<disk, writes, created>>
  /\ LogFrame

LogSave(r, fast) ==
  LET fs1 == saveState([disk |-> disk, writes |-> writes], states, r, fast)
  IN /\ states[r].exists
     /\ WritesFit(fs1)
     /\ disk' = fs1.disk
     /\ writes' = fs1.writes
     /\ Called("saveState", r, "", 0, {})
     /\ UNCHANGED <<states, created, maxAssigned, clearedAt>>
     /\ LogFrame

Create == \E r \in LogRooms : LogCreate(r)
Load == \E r \in LogRooms, readOk \in BOOLEAN : LogLoad(r, readOk)
Add == \E r \in LogRooms, u \in Conns : LogAdd(r, u)
Clear == \E r \in LogRooms : LogClear(r)
UndoGlobalCall == \E r \in LogRooms : LogUndoGlobal(r)
UndoForUserCall == \E r \in LogRooms, u \in Conns : LogUndoForUser(r, u)
RedoGlobalCall == \E r \in LogRooms : LogRedoGlobal(r)
Delete == \E r \in LogRooms : LogDelete(r)
Save == \E r \in LogRooms : LogSave(r, TRUE)

NextLog ==
  \/ Create
  \/ Load
  \/ Add
  \/ Clear
  \/ UndoGlobalCall
  \/ UndoForUserCall
  \/ RedoGlobalCall
  \/ Delete
  \/ Save

SpecLog == Init /\ [][NextLog]_vars

\* ==== SpecAppend: one log under appends only ===============================
AppendCreate == \E r \in RoomId : LogCreate(r)
Append1 == \E r \in RoomId, u \in Conns : LogAdd(r, u)

NextAppend ==
  \/ AppendCreate
  \/ Append1

SpecAppend == Init /\ [][NextAppend]_vars

\* ==== SpecServer: the server under any messages of its connections =======
\* Any open connection sends any message at any time; a client only takes
\* the messages sent to it; every file write completes at once.  req is the message handled, calls what the
\* handler called in the order of its code: addAction, saveState, and
\* ws.send on the sockets in to (one entry per send or broadcast call).
Call(name) == [call |-> name, to |-> {}, msg |-> NoMsg]
SendCall(to, msg) == [call |-> "send", to |-> to, msg |-> msg]
\* the sockets a send or broadcast over users writes to
OpenIn(users, excludeId) ==
  {u \in users : u # excludeId /\ ws[u].readyState = "OPEN"}

\* handleJoinRoom, lines 138-155
joinCallsAnnounceFirst(c, raw, gen, readOk) ==
  LET roomId == sanitizeRoomId(raw)
      found == Truthy(roomId) /\ rooms[roomId].resident
      rid == newRoomId(roomId, gen)
      states1 == IF found THEN states
                 ELSE IF canLoad(rid, readOk) THEN loadState(states, rid, readOk)
                 ELSE createState(states, rid)
      users == (IF found THEN rooms[rid].users ELSE {}) \cup {c}
  IN <<SendCall(OpenIn(users, c), UserJoinedMsg(c, Cardinality(users))),
       SendCall(OpenIn({c}, Null), RoomJoinedMsg(rid, c, users))>>
     \o (IF Len(states1[rid].actions) > 0
         THEN <<SendCall(OpenIn({c}, Null), StateSyncMsg(states1[rid]))>>
         ELSE <<>>)
joinCalls(c, raw, gen, readOk) ==
  LET roomId == sanitizeRoomId(raw)
      found == Truthy(roomId) /\ rooms[roomId].resident
      rid == newRoomId(roomId, gen)
      states1 == IF found THEN states
                 ELSE IF canLoad(rid, readOk) THEN loadState(states, rid, readOk)
                 ELSE createState(states, rid)
      users == (IF found THEN rooms[rid].users ELSE {}) \cup {c}
  IN <<SendCall(OpenIn({c}, Null), RoomJoinedMsg(rid, c, users))>>
     \o (IF Len(states1[rid].actions) > 0
         THEN <<SendCall(OpenIn({c}, Null), StateSyncMsg(states1[rid]))>>
         ELSE <<>>)
     \o <<SendCall(OpenIn(users, c), UserJoinedMsg(c, Cardinality(users)))>>

\* handleDrawEvent for draw-end, lines 167-183
drawEndCallsBroadcastFirst(c, pathLen, stroke) ==
  LET r == ws[c].roomId
  IN IF r = Null \/ ~isValidDrawData(pathLen) THEN <<>>
     ELSE <<SendCall(OpenIn(getUsers(rooms, r), c), DrawEndMsg(c, stroke)),
            Call("addAction"), Call("saveState")>>
drawEndCalls(c, pathLen, stroke) ==
  LET r == ws[c].roomId
  IN IF r = Null \/ ~isValidDrawData(pathLen) THEN <<>>
     ELSE <<Call("addAction"), Call("saveState"),
            SendCall(OpenIn(getUsers(rooms, r), c), DrawEndMsg(c, stroke))>>

\* handleDrawEvent for draw-start and draw-move, line 183
drawMoveCalls(c, type, m) ==
  LET r == ws[c].roomId
  IN IF r = Null \/ ~isValidDrawMove(m) THEN <<>>
     ELSE <<SendCall(OpenIn(getUsers(rooms, r), c), DrawMoveMsg(type, c, m))>>

\* handleDrawBatch, lines 192-205
RECURSIVE batchCalls(_, _, _)
batchCalls(users, c, moves) ==
  IF moves = <<>> THEN <<>>
  ELSE (IF ~moves[1].isNumber THEN <<>>
        ELSE <<SendCall(OpenIn(users, c), DrawMoveMsg("draw-move", c, moves[1]))>>)
       \o batchCalls(users, c, Tail(moves))
drawBatchCalls(c, moves) ==
  IF ws[c].roomId = Null THEN <<>>
  ELSE batchCalls(getUsers(rooms, ws[c].roomId), c, moves)

\* handleCursorMove, lines 210-216
cursorMoveCalls(c, m) ==
  LET r == ws[c].roomId
  IN IF r = Null THEN <<>>
     ELSE <<SendCall(OpenIn(getUsers(rooms, r), c), CursorMoveMsg(c, m))>>

\* handleCanvasClear, lines 221-225
canvasClearCalls(c) ==
  LET r == ws[c].roomId
  IN IF r = Null THEN <<>>
     ELSE <<Call("clearState"),
            SendCall(OpenIn(getUsers(rooms, r), Null), CanvasClearMsg(c)),
            Call("saveState")>>

\* handleUndoGlobal / handleUndoMy / handleRedoGlobal: i is the index of the
\* action that is flipped (0: none)
undoRedoCalls(c, i, flag, undoType) ==
  LET r == ws[c].roomId
      sts1 == [states EXCEPT ![r] = SetUndone(@, i, flag)]
  IN IF r = Null \/ i = 0 THEN <<>>
     ELSE <<SendCall(OpenIn(getUsers(rooms, r), Null),
                     CanvasRebuildMsg(sts1[r], undoType, sts1[r].actions[i])),
            Call("saveState")>>

\* handleDisconnect, lines 297-315
disconnectCalls(c) ==
  LET r == ws[c].roomId
      users == IF r = Null THEN {} ELSE rooms[r].users \ {c}
  IN IF r = Null \/ ~rooms[r].resident THEN <<>>
     ELSE <<Call("removeUser"),
            SendCall(OpenIn(users, c), UserLeftMsg(c, Cardinality(users)))>>
          \o (IF users = {}
              THEN <<Call("saveState"), Call("deleteRoom"), Call("deleteState")>>
              ELSE <<>>)

Asked(type, c, roomId, pathLen, moves) ==
  req' = [type |-> type, from |-> c, roomId |-> roomId, pathLen |-> pathLen,
          moves |-> moves, data |-> ""]
SrvFrame == UNCHANGED <<clientVars, gid, pongs, userLeft, maxAssigned, clearedAt, lastOp>>
ErrFrame == UNCHANGED <<clientVars, gid, pongs, maxAssigned, clearedAt, lastOp>>
\* a stroke or a clear was added to a log
Counted == created' = IF states' # states THEN created + 1 ELSE created

SrvJoinRoom ==
  \E c \in Conns, raw \in NamedRoomIds, gen \in RoomId, readOk \in BOOLEAN :
    /\ handleJoinRoom(c, raw, gen, readOk)
    /\ Asked("join-room", c, raw, 0, <<>>)
    /\ calls' = joinCalls(c, raw, gen, readOk)
    /\ UNCHANGED <<created, evicted>> /\ SrvFrame

SrvDrawMove ==
  \E c \in Conns, type \in {"draw-start", "draw-move"}, m \in MoveInputs :
    /\ handleDrawMove(c, type, m)
    /\ Asked(type, c, "", 0, <<m>>)
    /\ calls' = drawMoveCalls(c, type, m)
    /\ UNCHANGED <<created, evicted>> /\ SrvFrame

SrvDrawEnd ==
  \E c \in Conns, pathLen \in PathInputs :
    /\ created < MaxDrawn
    /\ handleDrawEnd(c, pathLen, created + 1, TRUE)
    /\ Asked("draw-end", c, "", pathLen, <<>>)
    /\ calls' = drawEndCalls(c, pathLen, created + 1)
    /\ Counted
    /\ UNCHANGED evicted /\ SrvFrame

SrvDrawBatch ==
  \E c \in Conns, moves \in BatchInputs :
    /\ handleDrawBatch(c, moves)
    /\ Asked("draw-batch", c, "", 0, moves)
    /\ calls' = drawBatchCalls(c, moves)
    /\ UNCHANGED <<created, evicted>> /\ SrvFrame

SrvCursorMove ==
  \E c \in Conns, m \in MoveInputs :
    /\ handleCursorMove(c, m)
    /\ Asked("cursor-move", c, "", 0, <<m>>)
    /\ calls' = cursorMoveCalls(c, m)
    /\ UNCHANGED <<created, evicted>> /\ SrvFrame

SrvCanvasClear ==
  \E c \in Conns :
    /\ created < MaxDrawn
    /\ handleCanvasClear(c, TRUE)
    /\ Asked("canvas-clear", c, "", 0, <<>>)
    /\ calls' = canvasClearCalls(c)
    /\ Counted
    /\ UNCHANGED evicted /\ SrvFrame

SrvUndoGlobal ==
  \E c \in Conns :
    /\ handleUndoGlobal(c, TRUE)
    /\ Asked("undo-global", c, "", 0, <<>>)
    /\ calls' = undoRedoCalls(c, IF ws[c].roomId = Null THEN 0
                                 ELSE undoGlobal(states[ws[c].roomId]), TRUE, "global")
    /\ UNCHANGED <<created, evicted>> /\ SrvFrame

SrvUndoMy ==
  \E c \in Conns :
    /\ handleUndoMy(c, TRUE)
    /\ Asked("undo-my", c, "", 0, <<>>)
    /\ calls' = undoRedoCalls(c, IF ws[c].roomId = Null THEN 0
                                 ELSE undoForUser(states[ws[c].roomId], c), TRUE, "my")
    /\ UNCHANGED <<created, evicted>> /\ SrvFrame

SrvRedoGlobal ==
  \E c \in Conns :
    /\ handleRedoGlobal(c, TRUE)
    /\ Asked("redo-global", c, "", 0, <<>>)
    /\ calls' = undoRedoCalls(c, IF ws[c].roomId = Null THEN 0
                                 ELSE redoGlobal(states[ws[c].roomId]), FALSE, "redo")
    /\ UNCHANGED <<created, evicted>> /\ SrvFrame

\* ws.on('close') / ws.on('error')
SrvClose ==
  \E c \in Conns :
    /\ handleDisconnect(c, TRUE)
    /\ Asked("close", c, "", 0, <<>>)
    /\ calls' = disconnectCalls(c)
    /\ evicted' = IF ws[c].roomId # Null /\ states[ws[c].roomId].exists
                     /\ ~states'[ws[c].roomId].exists
                  THEN [evicted EXCEPT ![ws[c].roomId] = states[ws[c].roomId]]
                  ELSE evicted
    /\ UNCHANGED created /\ SrvFrame

\* the client of c takes the message at the head of its queue; no handler
\* of the server runs
SrvTake ==
  \E c \in Conns :
    /\ s2c[c] # <<>>
    /\ s2c' = [s2c EXCEPT ![c] = Tail(@)]
    /\ req' = NoReq
    /\ calls' = <<>>
    /\ UNCHANGED <<rooms, ws, stateVars, clientVars, gid, pongs, userLeft, created, evicted>>
    /\ UNCHANGED <<maxAssigned, clearedAt, lastOp>>

NextServer ==
  \/ SrvJoinRoom
  \/ SrvDrawMove
  \/ SrvDrawEnd
  \/ SrvDrawBatch
  \/ SrvCursorMove
  \/ SrvCanvasClear
  \/ SrvUndoGlobal
  \/ SrvUndoMy
  \/ SrvRedoGlobal
  \/ SrvClose
  \/ SrvTake

SpecServer == Init /\ [][NextServer]_vars

\* ==== the server with writes that complete later ==========================
\* Joins, strokes and closes with fs.writeFile's callback running at once or
\* at any later time (Written), and the synchronous read of loadState falling
\* between a request and its completion.
PersistDrawEnd ==
  \E c \in Conns, fast \in BOOLEAN :
    /\ created < MaxDrawn
    /\ handleDrawEnd(c, 2, created + 1, fast)
    /\ Asked("draw-end", c, "", 2, <<>>)
    /\ calls' = drawEndCalls(c, 2, created + 1)
    /\ Counted
    /\ UNCHANGED evicted /\ SrvFrame

PersistClose ==
  \E c \in Conns, fast \in BOOLEAN :
    /\ handleDisconnect(c, fast)
    /\ Asked("close", c, "", 0, <<>>)
    /\ calls' = disconnectCalls(c)
    /\ evicted' = IF ws[c].roomId # Null /\ states[ws[c].roomId].exists
                     /\ ~states'[ws[c].roomId].exists
                  THEN [evicted EXCEPT ![ws[c].roomId] = states[ws[c].roomId]]
                  ELSE evicted
    /\ UNCHANGED created /\ SrvFrame

NextPersist ==
  \/ SrvJoinRoom
  \/ PersistDrawEnd
  \/ PersistClose
  \/ SrvTake
  \/ Written

SpecPersist == Init /\ [][NextPersist]_vars

\* ==== the server with its heartbeat ========================================
\* Joins and strokes, the 30 s tick, pongs, and the close event of a socket
\* the tick has terminated.
HbTick ==
  /\ heartbeat
  /\ Asked("heartbeat", "", "", 0, <<>>)
  /\ calls' = <<>>
  /\ UNCHANGED <<rooms, stateVars, s2c, created, evicted>> /\ SrvFrame

HbPong ==
  \E c \in Conns :
    /\ pong(c)
    /\ Asked("pong", c, "", 0, <<>>)
    /\ calls' = <<>>
    /\ UNCHANGED <<rooms, stateVars, s2c, created, evicted>> /\ SrvFrame

\* ws.on('close') of a terminated socket
TerminatedClose(c) ==
  /\ ws[c].readyState = "CLOSING"
  /\ handleDisconnect(c, TRUE)
  /\ Asked("close", c, "", 0, <<>>)
  /\ calls' = disconnectCalls(c)
  /\ evicted' = IF ws[c].roomId # Null /\ states[ws[c].roomId].exists
                   /\ ~states'[ws[c].roomId].exists
                THEN [evicted EXCEPT ![ws[c].roomId] = states[ws[c].roomId]]
                ELSE evicted
  /\ UNCHANGED created /\ SrvFrame

HbClose == \E c \in Conns : TerminatedClose(c)

NextHeartbeat ==
  \/ SrvJoinRoom
  \/ SrvDrawEnd
  \/ HbTick
  \/ HbPong
  \/ HbClose
  \/ SrvTake

SpecHeartbeat == Init /\ [][NextHeartbeat]_vars

\* the close event of a terminated socket runs, and clients take what the
\* server has sent them
SpecHeartbeatFair ==
  /\ SpecHeartbeat
  /\ \A c \in Conns : SF_vars(TerminatedClose(c))
  /\ WF_vars(SrvTake)

\* ==== the browser reconnecting ============================================
\* The user joins once; the socket opens or fails, an open socket is lost,
\* the timer of tryReconnect runs, and time passes in seconds.
BrowserFrame ==
  UNCHANGED <<rooms, ws, stateVars, s2c, canvas, snapshotCache, clientUserId,
              created, histVars, gid, pongs, userLeft>>
\* the numbers of the moves that these messages carry
MovesIn(out) ==
  UNION {{out[i].moves[j] : j \in DOMAIN out[i].moves} :
           i \in {n \in DOMAIN out : out[n].type \in {"draw-move", "draw-batch"}}}
Did(step, out) ==
  c2s' = [step |-> step, out |-> out,
          moveAt |-> IF \E i \in DOMAIN out : out[i].type = "draw-move"
                     THEN now ELSE c2s.moveAt,
          latest |-> IF step = "start" THEN 0
                     ELSE Max(MovesIn(out) \cup {c2s.latest})]

\* App.joinRoom: wsClient.connect(username, roomId)
BrConnect ==
  \E username \in Usernames, roomId \in TypedRoomIds :
    /\ wsc.readyState = "NONE"
    /\ wsc' = connect(wsc, username, roomId)
    /\ held' = [username |-> username, roomId |-> roomId, disconnected |-> FALSE]
    /\ Did("connect", <<>>)
    /\ UNCHANGED <<cm, now>> /\ BrowserFrame

BrOpen ==
  /\ wsc.readyState = "CONNECTING"
  /\ wsc' = onopen(wsc, now).wsc
  /\ Did("open", onopen(wsc, now).out)
  /\ UNCHANGED <<cm, now, held>> /\ BrowserFrame

\* the server's room-joined arrives: the room asked for, or a generated one
BrRoomJoined ==
  \E roomId \in RoomId :
    /\ wsc.readyState = "OPEN"
    /\ Truthy(wsc.roomId) => roomId = wsc.roomId
    /\ wsc' = roomJoined(wsc, roomId)
    /\ held' = [held EXCEPT !.roomId = roomId]
    /\ Did("room-joined", <<>>)
    /\ UNCHANGED <<cm, now>> /\ BrowserFrame

\* ws.onclose of a socket that never opened (refused, or closed by the 10 s
\* timeout of connect) and of an open socket
BrConnectFails ==
  /\ wsc.readyState = "CONNECTING"
  /\ wsc' = onclose(wsc, now)
  /\ Did("close", <<>>)
  /\ UNCHANGED <<cm, now, held>> /\ BrowserFrame

BrLost ==
  /\ wsc.readyState = "OPEN"
  /\ wsc' = onclose(wsc, now)
  /\ Did("close", <<>>)
  /\ UNCHANGED <<cm, now, held>> /\ BrowserFrame

\* setTimeout's callback runs, at its due time or later
BrTimer ==
  /\ wsc.timer.set /\ now >= wsc.timer.due
  /\ wsc' = reconnectTimer(wsc)
  /\ Did("timer", <<>>)
  /\ UNCHANGED <<cm, now, held>> /\ BrowserFrame

BrSecond ==
  /\ now < MaxWait
  /\ now' = now + Second
  /\ Did("time", <<>>)
  /\ UNCHANGED <<cm, wsc, held>> /\ BrowserFrame

NextReconnect ==
  \/ BrConnect
  \/ BrOpen
  \/ BrRoomJoined
  \/ BrConnectFails
  \/ BrLost
  \/ BrTimer
  \/ BrSecond

SpecReconnect == Init /\ [][NextReconnect]_vars

\* ==== the browser disconnecting ============================================
\* As above, and the application calls disconnect(); the socket it closed
\* raises its close event later.  The user joins once, before disconnect().
BrJoin == ~held.disconnected /\ BrConnect

BrDisconnect ==
  /\ wsc.username # Null /\ ~wsc.closing
  /\ wsc' = disconnect(wsc)
  /\ held' = [held EXCEPT !.disconnected = TRUE]
  /\ Did("disconnect", <<>>)
  /\ UNCHANGED <<cm, now>> /\ BrowserFrame

BrClosed ==
  /\ wsc.closing
  /\ wsc' = oncloseAfterDisconnect(wsc, now)
  /\ Did("close", <<>>)
  /\ UNCHANGED <<cm, now, held>> /\ BrowserFrame

NextDisconnect ==
  \/ BrJoin
  \/ BrOpen
  \/ BrConnectFails
  \/ BrLost
  \/ BrTimer
  \/ BrSecond
  \/ BrDisconnect
  \/ BrClosed

SpecDisconnect == Init /\ [][NextDisconnect]_vars

\* ==== the browser drawing =================================================
\* On an open socket: the smoothed round-trip time changes, the user presses,
\* moves and releases the mouse, animation frames run, time passes in ticks.
AdLatency ==
  \E latency \in Latencies :
    /\ wsc.readyState = "OPEN"
    /\ wsc' = [wsc EXCEPT !.latency = latency]
    /\ Did("latency", <<>>)
    /\ UNCHANGED <<cm, now, held>> /\ BrowserFrame

AdStart ==
  /\ wsc.readyState = "OPEN" /\ ~cm.isDrawing
  /\ cm' = startDrawingSends(cm, wsc).cm
  /\ Did("start", startDrawingSends(cm, wsc).out)
  /\ UNCHANGED <<wsc, now, held>> /\ BrowserFrame

AdDraw ==
  /\ cm.isDrawing /\ cm.currentPath < MaxMoves
  /\ cm' = drawSends(cm, wsc).cm
  /\ Did("draw", drawSends(cm, wsc).out)
  /\ UNCHANGED <<wsc, now, held>> /\ BrowserFrame

AdFrame ==
  /\ cm.rafId.kind # "none"
  /\ cm' = rafCallback(cm, wsc, now).cm
  /\ Did("frame", rafCallback(cm, wsc, now).out)
  /\ UNCHANGED <<wsc, now, held>> /\ BrowserFrame

AdStop ==
  /\ cm.isDrawing
  /\ cm' = stopDrawingSends(cm, wsc).cm
  /\ Did("stop", stopDrawingSends(cm, wsc).out)
  /\ UNCHANGED <<wsc, now, held>> /\ BrowserFrame

AdTick ==
  /\ wsc.readyState = "OPEN"
  /\ now < MaxNow
  /\ now' = now + Tick
  /\ Did("time", <<>>)
  /\ UNCHANGED <<cm, wsc, held>> /\ BrowserFrame

NextAdaptive ==
  \/ BrConnect
  \/ BrOpen
  \/ AdLatency
  \/ AdStart
  \/ AdDraw
  \/ AdFrame
  \/ AdStop
  \/ AdTick

SpecAdaptive == Init /\ [][NextAdaptive]_vars

\* ==== the server generating a room id =====================================
\* new Room() without an id runs generateId: the loop draws six characters.
GenFrame ==
  UNCHANGED <<rooms, ws, stateVars, s2c, clientVars, created, histVars, pongs, userLeft>>

GenEnter ==
  /\ gid.pc = "returned"
  /\ gid' = generateIdEnter
  /\ GenFrame

GenLoop ==
  \E index \in RandomIndexes :
    /\ gid.pc = "loop" /\ gid.i < IdLength
    /\ gid' = generateIdLoop(gid, index)
    /\ GenFrame

GenReturn ==
  /\ gid.pc = "loop" /\ ~(gid.i < IdLength)
  /\ gid' = generateIdReturn(gid)
  /\ GenFrame

NextGenerateId ==
  \/ GenEnter
  \/ GenLoop
  \/ GenReturn

SpecGenerateId == Init /\ [][NextGenerateId]_vars

\* ==== the server with failing sockets ======================================
\* Joins and strokes; a socket closes, or fails first and closes then.
Told(cs, c) ==
  [userLeft EXCEPT ![c] =
     [d \in Conns |->
        @[d] + Cardinality({n \in 1..Len(cs) :
                              /\ cs[n].call = "send"
                              /\ cs[n].msg.type = "user-left"
                              /\ d \in cs[n].to})]]

ErrError ==
  \E c \in Conns :
    /\ onError(c, TRUE)
    /\ Asked("error", c, "", 0, <<>>)
    /\ calls' = disconnectCalls(c)
    /\ userLeft' = Told(calls', c)
    /\ evicted' = IF ws[c].roomId # Null /\ states[ws[c].roomId].exists
                     /\ ~states'[ws[c].roomId].exists
                  THEN [evicted EXCEPT ![ws[c].roomId] = states[ws[c].roomId]]
                  ELSE evicted
    /\ UNCHANGED created /\ ErrFrame

ErrClose ==
  \E c \in Conns :
    /\ handleDisconnect(c, TRUE)
    /\ Asked("close", c, "", 0, <<>>)
    /\ calls' = disconnectCalls(c)
    /\ userLeft' = Told(calls', c)
    /\ evicted' = IF ws[c].roomId # Null /\ states[ws[c].roomId].exists
                     /\ ~states'[ws[c].roomId].exists
                  THEN [evicted EXCEPT ![ws[c].roomId] = states[ws[c].roomId]]
                  ELSE evicted
    /\ UNCHANGED created /\ ErrFrame

NextErrors ==
  \/ SrvJoinRoom
  \/ SrvDrawEnd
  \/ ErrError
  \/ ErrClose
  \/ SrvTake

SpecErrors == Init /\ [][NextErrors]_vars

\* ==== the server with named and generated rooms ===========================
\* join-room with any roomId field: one that names a room, none, or one that
\* sanitizes to ''; without a name createRoom takes the id that generateId
\* draws, whichever it is.  Strokes, closes, and clients taking messages.
RmJoinRoom ==
  \E c \in Conns, raw \in RawRoomIds, gen \in RoomId, readOk \in BOOLEAN :
    /\ handleJoinRoom(c, raw, gen, readOk)
    /\ Asked("join-room", c, raw, 0, <<>>)
    /\ calls' = joinCalls(c, raw, gen, readOk)
    /\ UNCHANGED <<created, evicted>> /\ SrvFrame

NextRooms ==
  \/ RmJoinRoom
  \/ SrvDrawEnd
  \/ SrvClose
  \/ SrvTake

SpecRooms == Init /\ [][NextRooms]_vars

\* ==== the server storing strokes with their coordinates ===================
\* A draw-end carries startX, startY and the points of path; abs is the
\* greatest Math.abs of these coordinates.  The stroke is stored as sent.
CoordInputs == {5, 10000, 10001}

CoDrawEnd ==
  \E c \in Conns, pathLen \in PathInputs, abs \in CoordInputs :
    LET stroke == [stroke |-> created + 1, abs |-> abs]
    IN /\ created < MaxDrawn
       /\ handleDrawEnd(c, pathLen, stroke, TRUE)
       /\ Asked("draw-end", c, "", pathLen, <<>>)
       /\ calls' = drawEndCalls(c, pathLen, stroke)
       /\ Counted
       /\ UNCHANGED evicted /\ SrvFrame

NextCoords ==
  \/ SrvJoinRoom
  \/ CoDrawEnd
  \/ SrvTake

SpecCoords == Init /\ [][NextCoords]_vars

\* ==== the browser measuring its latency ===================================
\* The socket opens and sends its first ping, the interval sends one every
\* 3 s, each ping comes back as the server's pong (server.js, case 'ping':
\* the timestamp is echoed) after any delay, in the order sent.
LtFrame ==
  UNCHANGED <<rooms, ws, stateVars, s2c, canvas, snapshotCache, clientUserId,
              created, histVars, gid, cm, held, userLeft>>
\* the timestamps of the pings among the messages sent
RECURSIVE PingStamps(_)
PingStamps(out) ==
  IF out = <<>> THEN <<>>
  ELSE (IF Head(out).type = "ping" THEN <<Head(out).timestamp>> ELSE <<>>)
       \o PingStamps(Tail(out))

LtOpen ==
  /\ wsc.readyState = "CONNECTING"
  /\ wsc' = onopen(wsc, now).wsc
  /\ Did("open", onopen(wsc, now).out)
  /\ pongs' = pongs \o PingStamps(onopen(wsc, now).out)
  /\ UNCHANGED now /\ LtFrame

LtInterval ==
  /\ wsc.pingInterval.set /\ now >= wsc.pingInterval.due
  /\ Len(pongs) < MaxPongs
  /\ wsc' = pingIntervalFires(wsc, now).wsc
  /\ Did("ping", pingIntervalFires(wsc, now).out)
  /\ pongs' = pongs \o PingStamps(pingIntervalFires(wsc, now).out)
  /\ UNCHANGED now /\ LtFrame

LtPong ==
  /\ wsc.readyState = "OPEN" /\ pongs # <<>>
  /\ wsc' = pongHandled(wsc, Head(pongs), now)
  /\ pongs' = Tail(pongs)
  /\ Did("pong", <<>>)
  /\ UNCHANGED now /\ LtFrame

LtSecond ==
  /\ now < MaxPingTime
  /\ now' = now + Second
  /\ Did("time", <<>>)
  /\ UNCHANGED <<wsc, pongs, userLeft>> /\ LtFrame

NextLatency ==
  \/ BrConnect
  \/ LtOpen
  \/ LtInterval
  \/ LtPong
  \/ LtSecond

SpecLatency == Init /\ [][NextLatency]_vars

\* ==== the client rebuilding its canvas ====================================
\* The log of room R1 holds RebuildLogLen strokes that c1 and c2 drew in
\* turn; c2 has left, c1 is in the room and its canvas shows them all; the
\* file is up to date.  From there on c1 undoes and redoes, and handles the
\* canvas-rebuild messages it is sent; c2, in no room, is ignored.
Rebuilder == "c1"
LoggedStroke(i) ==
  [id |-> i, userId |-> IF i % 2 = 1 THEN "c1" ELSE "c2", type |-> "draw-end",
   payload |-> i, timestamp |-> "Date", undone |-> FALSE]
LoggedState ==
  [exists |-> TRUE, actions |-> [i \in 1..RebuildLogLen |-> LoggedStroke(i)],
   actionIdCounter |-> RebuildLogLen]

InitRebuild ==
  /\ rooms = [r \in RoomId |->
               IF r = "R1" THEN [resident |-> TRUE, users |-> {Rebuilder}]
               ELSE NoRoom]
  /\ states = [r \in RoomId |-> IF r = "R1" THEN LoggedState ELSE NoState]
  /\ disk = [r \in RoomId |-> IF r = "R1" THEN toJSON(LoggedState) ELSE NoFile]
  /\ writes = {}
  /\ ws = [c \in Conns |->
            [roomId |-> IF c = Rebuilder THEN "R1" ELSE Null,
             readyState |-> "OPEN", isAlive |-> TRUE]]
  /\ s2c = [c \in Conns |-> <<>>]
  /\ canvas = [c \in Conns |-> IF c = Rebuilder THEN 1..RebuildLogLen ELSE {}]
  /\ snapshotCache = [c \in Conns |-> {}]
  /\ clientUserId = [c \in Conns |-> IF c = Rebuilder THEN c ELSE Undefined]
  /\ created = RebuildLogLen
  /\ maxAssigned = [r \in RoomId |-> IF r = "R1" THEN RebuildLogLen ELSE 0]
  /\ clearedAt = [r \in RoomId |-> 0]
  /\ lastOp = NoOp
  /\ req = NoReq
  /\ calls = <<>>
  /\ evicted = [r \in RoomId |-> NoState]
  /\ cm = NewCanvasManager
  /\ wsc = NewWebSocketClient
  /\ now = 0
  /\ c2s = [step |-> "", out |-> <<>>, moveAt |-> -1, latest |-> 0]
  /\ held = [username |-> Null, roomId |-> Null, disconnected |-> FALSE]
  /\ gid = NoGenerateId
  /\ pongs = <<>>
  /\ userLeft = [c \in Conns |-> [d \in Conns |-> 0]]

UndoneIn(r) == {i \in 1..Len(states[r].actions) : states[r].actions[i].undone}

RbUndoGlobal == Cardinality(UndoneIn("R1")) < MaxUndone /\ SrvUndoGlobal
RbUndoMy == Cardinality(UndoneIn("R1")) < MaxUndone /\ SrvUndoMy

NextRebuild ==
  \/ RbUndoGlobal
  \/ RbUndoMy
  \/ SrvRedoGlobal
  \/ Receive

SpecRebuild == InitRebuild /\ [][NextRebuild]_vars

\* ==== the server under any inbound frame ==================================
\* the calls of ws.on('message') for the payloads of Payloads
inboundCalls(c, data) ==
  LET msg == JSONparse(data)
  IN IF ~msg.ok \/ Throws(c, data) THEN <<SendCall({c}, ErrorMsg("Invalid JSON"))>>
     ELSE IF ~msg.truthy \/ NoType(msg.type)
     THEN <<SendCall({c}, ErrorMsg("Missing type"))>>
     ELSE CASE msg.type = "ping" -> <<SendCall({c}, PongMsg)>>
            [] msg.type = "undo" ->
                 undoRedoCalls(c, IF ws[c].roomId = Null THEN 0
                                  ELSE undoForUser(states[ws[c].roomId], c), TRUE, "my")
            [] msg.type = "redo" ->
                 undoRedoCalls(c, IF ws[c].roomId = Null THEN 0
                                  ELSE redoGlobal(states[ws[c].roomId]), FALSE, "redo")
            [] OTHER -> <<>>

SrvMessage ==
  \E c \in Conns, data \in Payloads :
    /\ onMessage(c, data, TRUE)
    /\ req' = [NoReq EXCEPT !.type = "message", !.from = c, !.data = data]
    /\ calls' = inboundCalls(c, data)
    /\ UNCHANGED <<created, evicted>> /\ SrvFrame

NextInbound ==
  \/ SrvJoinRoom
  \/ SrvDrawEnd
  \/ SrvMessage
  \/ SrvTake

SpecInbound == Init /\ [][NextInbound]_vars


\* ==== properties ==========================================================
\* the step is a call of op on the DrawingStateManager
IsCall(op) == lastOp'.op = op
CalledRoom == lastOp'.roomId
\* the positions at which two logs of the same length differ
Changed(old, new) == {i \in 1..Len(old) : new[i] # old[i]}

\* C1: under appends only, the id given to a new action is greater than
\* every id the room's log has given before, truncated entries included.
C1_AppendIdsIncrease ==
  [][IsCall("addAction") =>
       LET r == CalledRoom
           newId == LastOf(states'[r].actions).id
       IN /\ newId > maxAssigned[r]
          /\ \A a \in Range(states[r].actions) : newId > a.id]_vars

\* an append has truncated the log, and the ids go on from where they were
C1_Witness ==
  /\ lastOp.op = "addAction"
  /\ \E r \in RoomId :
       /\ Len(states[r].actions) = maxActions
       /\ states[r].actions[1].id = 2
       /\ LastOf(states[r].actions).id = maxActions + 1

\* C2: whatever is called (append, undo, redo, clear), the id given to a
\* new action is one the room's log has not given before.
C2_IdsNeverReused ==
  [][(IsCall("addAction") \/ IsCall("clearState")) /\ states' # states =>
       LastOf(states'[CalledRoom].actions).id > maxAssigned[CalledRoom]]_vars

\* C3: a global undo on a non-empty log, followed at once by a redo, leaves
\* the active actions as they were before the undo (stated for an undo that
\* found an action to undo).
C3_UndoThenRedoRestores ==
  [][/\ lastOp.op = "undoGlobal"
     /\ lastOp.affected # 0
     /\ IsCall("redoGlobal")
     /\ CalledRoom = lastOp.roomId
     /\ Len(states[CalledRoom].actions) > 0
     => ActiveIds(states'[CalledRoom]) = lastOp.before]_vars

\* C4: undoForUser(u) changes at most one action, one that u authored, and
\* only its undone flag; the logs of other rooms are untouched.
C4_UndoMyOwnOnly ==
  [][IsCall("undoForUser") =>
       LET r == CalledRoom
           old == states[r].actions
           new == states'[r].actions
       IN /\ Len(new) = Len(old)
          /\ Cardinality(Changed(old, new)) <= 1
          /\ \A i \in Changed(old, new) :
               /\ old[i].userId = lastOp'.userId
               /\ new[i] = [old[i] EXCEPT !.undone = TRUE]
          /\ \A q \in RoomId \ {r} : states'[q] = states[q]]_vars

\* undoForUser has undone an action of its caller while a newer action of
\* another user is active
C4_Witness ==
  /\ lastOp.op = "undoForUser"
  /\ lastOp.affected # 0
  /\ \E i, j \in 1..Len(states[lastOp.roomId].actions) :
       LET a == states[lastOp.roomId].actions
       IN /\ i < j
          /\ a[i].id = lastOp.affected /\ a[i].undone
          /\ a[i].userId = lastOp.userId
          /\ a[j].userId # lastOp.userId /\ a[j].type = "draw-end" /\ ~a[j].undone

\* the actions undo may pick: active and not a clear; by userId when given
Undoable(actions) ==
  {i \in 1..Len(actions) : ~actions[i].undone /\ actions[i].type # "clear"}
UndoableBy(actions, u) == {i \in Undoable(actions) : actions[i].userId = u}
\* the call undid exactly the newest action of S (nothing when S is empty)
UndidNewest(S) ==
  LET r == CalledRoom
      old == states[r].actions
      new == states'[r].actions
  IN IF S = {}
     THEN lastOp'.affected = 0 /\ new = old
     ELSE /\ lastOp'.affected = old[Max(S)].id
          /\ new = [old EXCEPT ![Max(S)].undone = TRUE]

\* C5: undoGlobal undoes the newest action that is active and not a clear,
\* whoever authored it; undoForUser(u) undoes the newest such action of u;
\* two undoGlobal calls in a row undo two different actions, the second one
\* older than the first.
C5_UndoPicksNewest ==
  [][/\ IsCall("undoGlobal") => UndidNewest(Undoable(states[CalledRoom].actions))
     /\ IsCall("undoForUser") =>
          UndidNewest(UndoableBy(states[CalledRoom].actions, lastOp'.userId))
     /\ (/\ IsCall("undoGlobal") /\ lastOp.op = "undoGlobal"
         /\ CalledRoom = lastOp.roomId
         /\ lastOp.affected # 0 /\ lastOp'.affected # 0)
        => lastOp'.affected < lastOp.affected]_vars

\* actions 1, 2, 3 by A, B, A: 3 and then 2 have been undone, 1 is active,
\* and the last call was the undoGlobal that undid 2
C5_Witness ==
  /\ lastOp.op = "undoGlobal"
  /\ lastOp.affected = 2
  /\ LET a == states[lastOp.roomId].actions
     IN /\ Len(a) = 3
        /\ <<a[1].id, a[2].id, a[3].id>> = <<1, 2, 3>>
        /\ <<a[1].userId, a[2].userId, a[3].userId>> = <<"c1", "c2", "c1">>
        /\ <<a[1].undone, a[2].undone, a[3].undone>> = <<FALSE, TRUE, TRUE>>

\* C6: a stroke that clear() removed is never in the log again, whatever
\* undo and redo calls follow, and a clear action is never undone.
C6_ClearIsIrreversible ==
  \A r \in RoomId :
    \A a \in Range(states[r].actions) :
      IF a.type = "clear" THEN ~a.undone ELSE a.payload > clearedAt[r]

\* after a clear that removed strokes, a redo has restored a later stroke
C6_Witness ==
  /\ lastOp.op = "redoGlobal"
  /\ lastOp.affected # 0
  /\ clearedAt[lastOp.roomId] >= 1
  /\ states[lastOp.roomId].actions[1].type = "clear"

\* s is what is left of t when only entries at the front of t are dropped
IsSuffix(s, t) ==
  Len(s) <= Len(t) /\ s = SubSeq(t, Len(t) - Len(s) + 1, Len(t))

\* C7: a log never holds more than maxActions actions; an append drops
\* entries only when the cap would be exceeded, only from the old end, and
\* leaves every surviving action (id, undone flag, position order) as it was.
C7_CapDropsOldest ==
  /\ [](\A r \in RoomId : Len(states[r].actions) <= maxActions)
  /\ [][IsCall("addAction") =>
          LET old == states[CalledRoom].actions
              new == states'[CalledRoom].actions
              all == Append(old, LastOf(new))
          IN /\ IsSuffix(new, all)
             /\ Len(new) = Min({Len(all), maxActions})
             /\ \A q \in RoomId \ {CalledRoom} : states'[q] = states[q]]_vars

\* an append has dropped action 1, and the undone action 2 has survived it
C7_Witness ==
  /\ lastOp.op = "addAction"
  /\ LET a == states[lastOp.roomId].actions
     IN /\ Len(a) = maxActions
        /\ a[1].id = 2 /\ a[1].undone
        /\ LastOf(a).id = maxActions + 1 /\ ~LastOf(a).undone

\* what activeActions() shows of an action
Shown(a) == [id |-> a.id, userId |-> a.userId, type |-> a.type,
             payload |-> a.payload, undone |-> a.undone]
ShownActive(st) ==
  [i \in 1..Len(getActiveActions(st)) |-> Shown(getActiveActions(st)[i])]
\* the id the next append to st is given
NextId(st) ==
  LastOf(addAction(st, [userId |-> "c1", type |-> "draw-end", payload |-> 1]).actions).id

\* C8: fromJSON(toJSON(log)) has the same active actions in the same order
\* and gives the next append the same id as log does.
C8_RoundTrip ==
  \A r \in RoomId :
    states[r].exists =>
      LET back == fromJSON(toJSON(states[r]))
      IN /\ ShownActive(back) = ShownActive(states[r])
         /\ NextId(back) = NextId(states[r])

\* a log that has been truncated and holds an undone action has been
\* written to the file and loaded from it
C8_Witness ==
  /\ lastOp.op = "loadState"
  /\ LET st == states[lastOp.roomId]
     IN /\ st.exists
        /\ Len(st.actions) >= 2
        /\ st.actionIdCounter > Len(st.actions)
        /\ \E a \in Range(st.actions) : a.undone
        /\ st = fromJSON(disk[lastOp.roomId])

\* every message the server has sent has been handled
Quiescent == \A c \in Conns : s2c[c] = <<>>
\* the client of c is in a room: it has handled room-joined on an open socket
Joined(c) ==
  ws[c].readyState = "OPEN" /\ ws[c].roomId # Null /\ clientUserId[c] # Undefined

\* C9: at quiescence every joined client shows exactly the strokes that are
\* active in the log of its room.
C9_QuiescentCanvasesAgree ==
  Quiescent =>
    \A c \in Conns :
      Joined(c) => canvas[c] = ActiveStrokes(states[ws[c].roomId].actions)

\* the step flips the undone flag of action i of room r and nothing else
FlipAt(r, i) ==
  /\ states[r].exists
  /\ states'[r].actions = [states[r].actions EXCEPT ![i].undone = ~@]

\* C10: when an undo or redo flips an action of a room's log, every open
\* connection whose ws.roomId is that room (the requester is one of them) is
\* sent one more message: a canvas-rebuild with the whole log as it is
\* after the flip and with the id of the flipped action.
C10_RebuildToWholeRoom ==
  [][\A r \in RoomId : \A i \in 1..Len(states[r].actions) :
       FlipAt(r, i) =>
         \A c \in Conns :
           ws[c].roomId = r /\ ws[c].readyState = "OPEN" =>
             /\ Len(s2c'[c]) = Len(s2c[c]) + 1
             /\ LastOf(s2c'[c]).type = "canvas-rebuild"
             /\ LastOf(s2c'[c]).actions = WireActions(states'[r])
             /\ LastOf(s2c'[c]).affectedActionId = states[r].actions[i].id]_vars

\* an undo-my has undone an action of its requester; the requester and the
\* other member of the room both have the canvas-rebuild waiting, and the
\* log holds another action that is not undone
C10_Witness ==
  \E r \in RoomId, c \in Conns, i \in 1..2 :
    /\ \A d \in Conns : ws[d].roomId = r /\ ws[d].readyState = "OPEN"
    /\ Len(states[r].actions) = 2
    /\ states[r].actions[i].userId = c /\ states[r].actions[i].undone
    /\ ~states[r].actions[3 - i].undone
    /\ \A d \in Conns :
         /\ s2c[d] # <<>>
         /\ LastOf(s2c[d]).type = "canvas-rebuild"
         /\ LastOf(s2c[d]).undoType = "my"
         /\ LastOf(s2c[d]).affectedActionId = states[r].actions[i].id
         /\ LastOf(s2c[d]).actions = WireActions(states[r])

\* ---- properties of the handlers (SpecServer) ----------------------------
\* the step is the handler of a message of this type
IsReq(type) == req'.type = type
\* the sender of that message and the room of its connection
Sender == req'.from
SenderRoom == IF req'.from \in Conns THEN ws[req'.from].roomId ELSE Null
\* the handler left the server as it was
NothingDone ==
  /\ UNCHANGED <<rooms, states, disk, writes, ws, s2c>>
  /\ calls' = <<>>
\* actions a redo may pick
Redoable(actions) ==
  {i \in 1..Len(actions) : actions[i].undone /\ actions[i].type # "clear"}

\* C11: an undo-global, undo-my or redo-global for which the log of the
\* sender's room holds no eligible action changes no log, no room, no file,
\* requests no write and sends nothing, however often it is repeated.
C11_NoOpUndoIsSilent ==
  [][/\ SenderRoom # Null
     /\ \/ IsReq("undo-global") /\ Undoable(states[SenderRoom].actions) = {}
        \/ IsReq("undo-my") /\ UndoableBy(states[SenderRoom].actions, Sender) = {}
        \/ IsReq("redo-global") /\ Redoable(states[SenderRoom].actions) = {}
     => NothingDone]_vars

\* an undo-my of a member that has no action of its own to undo, in a room
\* whose log holds an active stroke of the other member, has been handled
C11_Witness ==
  /\ req.type = "undo-my"
  /\ calls = <<>>
  /\ ws[req.from].roomId # Null
  /\ \A c \in Conns : ws[c].readyState = "OPEN" /\ ws[c].roomId = ws[req.from].roomId
  /\ \E a \in Range(states[ws[req.from].roomId].actions) :
       a.type = "draw-end" /\ ~a.undone /\ a.userId # req.from
  /\ UndoableBy(states[ws[req.from].roomId].actions, req.from) = {}

\* the messages that a sequence of calls writes to the socket of d, in order
RECURSIVE SentTo(_, _)
SentTo(cs, d) ==
  IF cs = <<>> THEN <<>>
  ELSE (IF cs[1].call = "send" /\ d \in cs[1].to THEN <<cs[1].msg>> ELSE <<>>)
       \o SentTo(Tail(cs), d)
\* the message types of the send calls, in order
RECURSIVE SendTypes(_)
SendTypes(cs) ==
  IF cs = <<>> THEN <<>>
  ELSE (IF cs[1].call = "send" THEN <<cs[1].msg.type>> ELSE <<>>)
       \o SendTypes(Tail(cs))
\* every queue has grown by exactly what the calls of the handler sent
QueuesFollowCalls == \A d \in Conns : s2c'[d] = s2c[d] \o SentTo(calls', d)

\* C12: the handler of join-room sends room-joined to the joiner first, then
\* state-sync to the joiner (if at all), and only then user-joined to the
\* other open members of the room, never to the joiner; when the log holds
\* an active action the state-sync is sent and carries the whole log.
C12_JoinOrder ==
  [][IsReq("join-room") =>
       LET c == Sender
           r == ws'[c].roomId
           n == Len(calls')
       IN /\ QueuesFollowCalls
          /\ SendTypes(calls') \in {<<"room-joined", "user-joined">>,
                                    <<"room-joined", "state-sync", "user-joined">>}
          /\ calls'[1].to = {c} /\ calls'[1].msg.userId = c
          /\ calls'[1].msg.roomId = r
          /\ n = 3 => calls'[2].to = {c}
          /\ calls'[n].to = {d \in rooms'[r].users \ {c} : ws[d].readyState = "OPEN"}
          /\ calls'[n].msg.userId = c
          /\ getActiveActions(states'[r]) # <<>> =>
               /\ n = 3
               /\ calls'[2].msg.actions = WireActions(states'[r])]_vars

\* a connection has joined a room that has another member and whose log
\* holds an active and an undone action: all three messages have been sent
C12_Witness ==
  /\ req.type = "join-room"
  /\ Len(calls) = 3
  /\ calls[3].to # {}
  /\ LET st == states[ws[req.from].roomId]
     IN /\ \E a \in Range(st.actions) : a.undone
        /\ \E a \in Range(st.actions) : ~a.undone
        /\ calls[2].msg.actions = WireActions(st)
  /\ Len(s2c[req.from]) >= 2
  /\ s2c[req.from][Len(s2c[req.from]) - 1].type = "room-joined"
  /\ LastOf(s2c[req.from]).type = "state-sync"

\* C13: a join-room whose room id is non-empty after sanitizing and names a
\* room that is not resident makes the joiner a member of a room with
\* exactly the sanitized id; no room with another id comes into being.
C13_JoinCreatesNamedRoom ==
  [][(/\ IsReq("join-room")
      /\ Truthy(sanitizeRoomId(req'.roomId))
      /\ ~rooms[sanitizeRoomId(req'.roomId)].resident)
       => LET c == Sender
              r == sanitizeRoomId(req'.roomId)
          IN /\ ws'[c].roomId = r
             /\ rooms'[r].resident
             /\ c \in rooms'[r].users
             /\ states'[r].exists
             /\ calls'[1].msg.roomId = r
             /\ \A o \in RoomId \ {r} :
                  rooms'[o] = rooms[o] /\ states'[o] = states[o]]_vars

\* the first member of room R1 has just joined it under the name "r1"
C13_Witness ==
  /\ req.type = "join-room" /\ req.roomId = "r1"
  /\ rooms["R1"].resident /\ rooms["R1"].users = {req.from}
  /\ ws[req.from].roomId = "R1"
  /\ ~rooms["R2"].resident

\* the message types whose handlers start with: if (!ws.roomId) return
RoomOnlyTypes ==
  {"draw-start", "draw-move", "draw-end", "draw-batch", "cursor-move",
   "canvas-clear", "undo-global", "undo-my", "redo-global"}

\* C14: a drawing, batch, cursor, clear, undo or redo message from a
\* connection that has joined no room changes no room, log, file or pending
\* write and sends nothing to anyone.
C14_UnjoinedIsIgnored ==
  [][(/\ req'.type \in RoomOnlyTypes
      /\ SenderRoom = Null)
       => NothingDone]_vars

\* an unjoined connection has sent a well-formed message of one of these
\* types while another connection sits in a room with a non-empty log
C14_Witness ==
  /\ req.type \in RoomOnlyTypes
  /\ ws[req.from].roomId = Null /\ ws[req.from].readyState = "OPEN"
  /\ calls = <<>>
  /\ (req.type = "draw-end" => isValidDrawData(req.pathLen))
  /\ \E d \in Conns \ {req.from} :
       /\ ws[d].roomId = "R1" /\ ws[d].readyState = "OPEN"
       /\ states["R1"].actions # <<>>

\* a valid draw-start or draw-move, or any cursor-move, of a joined sender
IsRelayed ==
  /\ SenderRoom # Null
  /\ \/ req'.type \in {"draw-start", "draw-move"} /\ isValidDrawMove(req'.moves[1])
     \/ req'.type = "cursor-move"
RelayedMsg ==
  IF req'.type = "cursor-move" THEN CursorMoveMsg(Sender, req'.moves[1])
  ELSE DrawMoveMsg(req'.type, Sender, req'.moves[1])

\* C15: a valid draw-start or draw-move, and any cursor-move, of a joined
\* connection is sent once, tagged with the sender's id, to every other
\* member of the sender's room and not to the sender or to anyone else;
\* rooms, logs, files and pending writes stay as they were.
C15_MovesAreRelayedOnly ==
  [][IsRelayed =>
       LET c == Sender
           others == rooms[SenderRoom].users \ {c}
       IN /\ RelayedMsg.userId = c /\ RelayedMsg.type = req'.type
          /\ \A d \in others : s2c'[d] = Append(s2c[d], RelayedMsg)
          /\ \A d \in Conns \ others : s2c'[d] = s2c[d]
          /\ UNCHANGED <<rooms, states, disk, writes, ws>>]_vars

\* a joined connection has sent a valid draw-move; the other member of its
\* room, whose log is not empty, has it in its queue and the sender has not
C15_Witness ==
  /\ req.type = "draw-move" /\ isValidDrawMove(req.moves[1])
  /\ ws[req.from].roomId = "R1"
  /\ states["R1"].actions # <<>>
  /\ \E d \in rooms["R1"].users \ {req.from} :
       /\ s2c[d] # <<>>
       /\ LastOf(s2c[d]) = DrawMoveMsg("draw-move", req.from, req.moves[1])
  /\ \A i \in DOMAIN s2c[req.from] : s2c[req.from][i].type # "draw-move"

\* C16: a valid draw-end of a joined connection appends exactly one action
\* to the log of its room, authored by the sender, not undone, with the id
\* that follows the room's counter; then the handler asks for the log to be
\* written, and last it sends draw-end to every other member of the room,
\* not to the sender.
C16_DrawEndAppendsSavesRelays ==
  [][(/\ IsReq("draw-end")
      /\ SenderRoom # Null
      /\ isValidDrawData(req'.pathLen))
       => LET c == Sender
              r == SenderRoom
              old == states[r]
              new == states'[r]
              a == LastOf(new.actions)
              kept == IF Len(old.actions) < maxActions THEN old.actions
                      ELSE Tail(old.actions)
              others == rooms[r].users \ {c}
          IN /\ new.actions = Append(kept, a)
             /\ a.id = old.actionIdCounter + 1
             /\ new.actionIdCounter = a.id
             /\ a.userId = c /\ a.undone = FALSE /\ a.type = "draw-end"
             /\ \A o \in RoomId \ {r} : states'[o] = states[o]
             /\ disk'[r] = toJSON(new)
             /\ Len(calls') = 3
             /\ calls'[1].call = "addAction"
             /\ calls'[2].call = "saveState"
             /\ calls'[3].call = "send" /\ calls'[3].to = others
             /\ calls'[3].msg = DrawEndMsg(c, a.payload)
             /\ QueuesFollowCalls
             /\ UNCHANGED <<rooms, ws>>]_vars

\* a member of a room with another member has sent a valid draw-end into a
\* log that already held an action; the other member has the draw-end
C16_Witness ==
  /\ req.type = "draw-end" /\ isValidDrawData(req.pathLen)
  /\ Len(calls) = 3 /\ calls[3].to # {}
  /\ LET st == states[ws[req.from].roomId]
     IN /\ Len(st.actions) >= 2
        /\ LastOf(st.actions).userId = req.from
        /\ LastOf(st.actions).id = st.actionIdCounter
        /\ disk[ws[req.from].roomId] = toJSON(st)
  /\ \E d \in calls[3].to : s2c[d] # <<>> /\ LastOf(s2c[d]) = calls[3].msg

\* what the server sends when each move arrives alone as a draw-move
RECURSIVE AloneCalls(_, _)
AloneCalls(c, moves) ==
  IF moves = <<>> THEN <<>>
  ELSE drawMoveCalls(c, "draw-move", moves[1]) \o AloneCalls(c, Tail(moves))

\* C17: for a draw-batch of a joined connection the server sends, move by
\* move, exactly what it sends when the same move arrives alone as a
\* draw-move (same validation, same recipients, same message), and the
\* logs and files stay as they were.
C17_BatchAsSingleMoves ==
  [][(IsReq("draw-batch") /\ SenderRoom # Null)
       => /\ calls' = AloneCalls(Sender, req'.moves)
          /\ QueuesFollowCalls
          /\ UNCHANGED <<rooms, states, disk, writes, ws>>]_vars

\* the half of C17 that the code keeps: a draw-batch never changes a log
C17_BatchLeavesLog ==
  [][IsReq("draw-batch") => UNCHANGED <<rooms, states, disk, writes>>]_vars

\* C18: after a canvas-clear of a joined connection the log of its room is
\* exactly one action, a clear that is not undone and has id 1, with the
\* counter at 1; canvas-clear is sent to every member of the room, the
\* sender included, and the handler asks for the cleared log to be written.
C18_ClearLeavesOneAction ==
  [][(IsReq("canvas-clear") /\ SenderRoom # Null)
       => LET c == Sender
              r == SenderRoom
              new == states'[r]
          IN /\ Len(new.actions) = 1
             /\ new.actions[1].type = "clear"
             /\ new.actions[1].undone = FALSE
             /\ new.actions[1].id = 1
             /\ new.actionIdCounter = 1
             /\ \A d \in rooms[r].users :
                  s2c'[d] = Append(s2c[d], CanvasClearMsg(c))
             /\ c \in rooms[r].users
             /\ \A d \in Conns \ rooms[r].users : s2c'[d] = s2c[d]
             /\ \E i \in DOMAIN calls' : calls'[i].call = "saveState"
             /\ disk'[r] = toJSON(new)
             /\ UNCHANGED <<rooms, ws>>]_vars

\* a member has cleared a room whose log held a stroke: the log is the one
\* clear action with id 1, written to the file, and both members of the room
\* have the canvas-clear
C18_Witness ==
  /\ req.type = "canvas-clear" /\ calls # <<>>
  /\ created >= 2
  /\ LET r == ws[req.from].roomId
     IN /\ Len(states[r].actions) = 1
        /\ states[r].actions[1].type = "clear"
        /\ states[r].actionIdCounter = 1
        /\ disk[r] = toJSON(states[r])
        /\ Cardinality(rooms[r].users) = 2
        /\ \A d \in rooms[r].users :
             s2c[d] # <<>> /\ LastOf(s2c[d]) = CanvasClearMsg(req.from)

Resumes(r) == ~rooms[r].resident /\ rooms'[r].resident /\ evicted[r].exists
SameLog(a, b) ==
  /\ Len(a.actions) = Len(b.actions)
  /\ \A i \in 1..Len(a.actions) : Shown(a.actions[i]) = Shown(b.actions[i])
  /\ a.actionIdCounter = b.actionIdCounter

\* C20: when a join brings back a room that was evicted after its last user
\* left, the log the room starts with has the actions, undone flags and id
\* counter of the log at the eviction, whenever the pending writes complete.
C20_ResumeRestoresLog ==
  [][\A r \in RoomId : Resumes(r) => SameLog(states'[r], evicted[r])]_vars

\* the cleanup of handleDisconnect for member c of room r
CleanedUp(c, r) ==
  LET remaining == rooms[r].users \ {c}
  IN /\ c \notin rooms'[r].users
     /\ \A d \in remaining :
          ws[d].readyState = "OPEN" =>
            /\ Len(s2c'[d]) = Len(s2c[d]) + 1
            /\ LastOf(s2c'[d]).type = "user-left"
            /\ LastOf(s2c'[d]).userId = c
            /\ LastOf(s2c'[d]).userCount = Cardinality(remaining)
     /\ IF remaining = {}
        THEN /\ disk'[r] = toJSON(states[r])
             /\ ~rooms'[r].resident
             /\ ~states'[r].exists
        ELSE /\ rooms'[r] = [resident |-> TRUE, users |-> remaining]
             /\ UNCHANGED <<states, disk, writes>>

\* C21: at a heartbeat tick every open connection that has not answered the
\* ping of the tick before is terminated and every other open connection is
\* pinged; the close event of a terminated member of a room does the cleanup
\* of an explicit close; and a terminated connection is eventually closed
\* and no user of its room any more.
C21_SilentConnectionIsReaped ==
  /\ [][/\ IsReq("heartbeat") =>
            \A c \in Conns :
              ws[c].readyState = "OPEN" =>
                IF ws[c].isAlive
                THEN ws'[c] = [ws[c] EXCEPT !.isAlive = FALSE]
                ELSE ws'[c].readyState = "CLOSING"
        /\ (/\ IsReq("close")
            /\ ws[Sender].readyState = "CLOSING"
            /\ SenderRoom # Null
            /\ Sender \in getUsers(rooms, SenderRoom))
             => CleanedUp(Sender, SenderRoom)]_vars
  /\ \A c \in Conns :
       (ws[c].readyState = "CLOSING")
         ~> (/\ ws[c].readyState = "CLOSED"
             /\ \A r \in RoomId : c \notin rooms[r].users)

\* both members of room R1 were terminated by the heartbeat and their close
\* events have run: the room is gone and its file holds the final log
C21_Witness ==
  /\ req.type = "close" /\ Len(calls) = 5
  /\ \A d \in Conns :
       ws[d].readyState = "CLOSED" /\ ws[d].roomId = "R1" /\ ~ws[d].isAlive
  /\ ~rooms["R1"].resident /\ ~states["R1"].exists
  /\ evicted["R1"].actions # <<>>
  /\ disk["R1"] = toJSON(evicted["R1"])

\* the frame of the step was not JSON / was JSON without a type
Unparsable == IsReq("message") /\ ~JSONparse(req'.data).ok
Untyped ==
  /\ IsReq("message") /\ JSONparse(req'.data).ok
  /\ (~JSONparse(req'.data).truthy \/ JSONparse(req'.data).type \in {Undefined, ""})
\* the sender alone got one message, an error with this text, and the
\* server is otherwise as it was, the sender's socket open
AnsweredWith(text) ==
  /\ s2c' = [s2c EXCEPT ![Sender] = Append(@, ErrorMsg(text))]
  /\ ErrorMsg(text).type = "error" /\ ErrorMsg(text).message = text
  /\ ws'[Sender].readyState = "OPEN"
  /\ UNCHANGED <<rooms, states, disk, writes, ws>>

\* C22: a frame that is not JSON is answered with one error "Invalid JSON"
\* to the sender, and one that parses to a value without a type with one
\* error "Missing type"; the connection stays open and no room, log, file
\* or pending write changes.
C22_MalformedIsAnswered ==
  [][/\ Unparsable => AnsweredWith("Invalid JSON")
     /\ Untyped => AnsweredWith("Missing type")]_vars

\* a member of a room whose log is not empty has sent {} and has the error
\* "Missing type" in its queue; the other member has nothing new
C22_Witness ==
  /\ req.type = "message" /\ req.data = "{}"
  /\ ws[req.from].roomId = "R1" /\ ws[req.from].readyState = "OPEN"
  /\ states["R1"].actions # <<>>
  /\ s2c[req.from] # <<>> /\ LastOf(s2c[req.from]) = ErrorMsg("Missing type")
  /\ \E d \in rooms["R1"].users \ {req.from} : s2c[d] = <<>>

\* the message of the step is a draw-start or draw-move whose x or y is not
\* a number or lies outside [-10000, 10000], or a draw-end whose path is not
\* an array or has more than 10000 points
IsOutOfBounds ==
  \/ /\ req'.type \in {"draw-start", "draw-move"}
     /\ (~req'.moves[1].isNumber \/ req'.moves[1].abs > 10000)
  \/ /\ req'.type = "draw-end"
     /\ (req'.pathLen = -1 \/ req'.pathLen > 10000)

\* C23: a draw-start, draw-move or draw-end with out-of-bounds data changes
\* no room, log, file or pending write and sends nothing, neither to the
\* room nor, as an error, to the sender.
C23_OutOfBoundsIsDropped ==
  [][IsOutOfBounds => NothingDone]_vars

\* a member of a room with another member has sent a draw-end whose path has
\* 10001 points; the log and all queues are as they were
C23_Witness ==
  /\ req.type = "draw-end" /\ req.pathLen = 10001
  /\ calls = <<>>
  /\ ws[req.from].roomId = "R1" /\ ws[req.from].readyState = "OPEN"
  /\ Cardinality(rooms["R1"].users) = 2
  /\ states["R1"].actions = <<>>
  /\ \A d \in Conns : s2c[d] = <<>>

\* the client-to-server types of the wire protocol
ProtocolTypes ==
  {"join-room", "draw-start", "draw-move", "draw-end", "draw-batch",
   "cursor-move", "canvas-clear", "undo-global", "undo-my", "redo-global", "ping"}
\* the types the switch of handleMessage serves besides those
LegacyTypes == {"undo", "redo"}
\* the frame of the step parsed to a message with this type
TypedAs(type) ==
  /\ IsReq("message") /\ JSONparse(req'.data).ok /\ JSONparse(req'.data).truthy
  /\ JSONparse(req'.data).type = type

\* C24 as stated: a message whose type is none of the protocol's types
\* changes no room, log or file and sends nothing.
C24_NonProtocolTypeIsIgnored ==
  [][\A type \in {"bogus"} \cup LegacyTypes :
       (TypedAs(type) /\ type \notin ProtocolTypes) => NothingDone]_vars

\* C24, amended: a message whose type is none of the protocol's types and
\* neither of the legacy types undo and redo changes no room, log or file
\* and sends nothing; undo is served as undo-my and redo as redo-global.
C24_UnknownTypeIsIgnored ==
  [][\A type \in {"bogus"} \cup LegacyTypes :
       (TypedAs(type) /\ type \notin ProtocolTypes \cup LegacyTypes)
         => NothingDone]_vars

\* a member of a room whose log is not empty has sent a message of type
\* bogus: nothing was called and nothing waits in any queue
C24_Witness ==
  /\ req.type = "message" /\ req.data = "{type:'bogus'}"
  /\ calls = <<>>
  /\ ws[req.from].roomId = "R1" /\ ws[req.from].readyState = "OPEN"
  /\ states["R1"].actions # <<>>
  /\ \A d \in Conns : s2c[d] = <<>>

\* the browser's step was this one
Stepped(step) == c2s'.step = step
\* the step was a mouse move at this smoothed round-trip time
MovedAt(latency) == Stepped("draw") /\ wsc.latency = latency
\* the move of the step was put into the batch / was left out of it, and
\* the callback that was scheduled, if none was waiting, is of this kind
\* with this interval
Accumulated(throttleMs) ==
  /\ cm'.moveBatch = Append(cm.moveBatch, cm'.currentPath)
  /\ cm.rafId.kind = "none" =>
       cm'.rafId = [kind |-> "batch", throttleMs |-> throttleMs]
  /\ c2s'.out = <<>>
SentAlone(throttleMs) ==
  /\ cm'.moveBatch = cm.moveBatch
  /\ cm'.pendingDrawData = cm'.currentPath
  /\ cm.rafId.kind = "none" =>
       cm'.rafId = [kind |-> "single", throttleMs |-> throttleMs]
  /\ c2s'.out = <<>>
\* what an animation frame sends: the callback scheduled for single moves
\* sends at most one draw-move, no sooner than its interval after the last
\* draw-move; the one scheduled for batches sends at most one draw-batch, no
\* sooner than its interval after the last send of a frame
FrameSends ==
  Stepped("frame") =>
    /\ cm.rafId.kind = "single" =>
         \/ c2s'.out = <<>>
         \/ /\ c2s'.out = <<DrawMoveSent(cm.pendingDrawData)>>
            /\ c2s.moveAt = -1 \/ now - c2s.moveAt >= cm.rafId.throttleMs
            /\ cm.rafId.throttleMs >= 8
    /\ cm.rafId.kind = "batch" =>
         \/ c2s'.out = <<>>
         \/ /\ c2s'.out = <<DrawBatchSent(cm.moveBatch)>>
            /\ cm.moveBatch # <<>> /\ cm'.moveBatch = <<>>
            /\ now - cm.lastDrawEvent >= cm.rafId.throttleMs

\* C25: a move made while the smoothed RTT is below 150 ms is left out of
\* the batch and goes out as a draw-move of its own, a move made at 150 ms
\* or more is accumulated into the batch that goes out as a draw-batch; at
\* 180 ms a move is batched, at 40 ms it is sent alone by a callback that
\* keeps at least 8 ms between two draw-move messages.
C25_BatchFrom150 ==
  [][/\ \A latency \in Latencies :
          MovedAt(latency) =>
            IF latency < 150
            THEN SentAlone(cm'.rafId.throttleMs)
            ELSE Accumulated(cm'.rafId.throttleMs)
     /\ MovedAt(180) => Accumulated(32)
     /\ MovedAt(40) => SentAlone(8)
     /\ FrameSends]_vars

\* at 180 ms two moves have gone out together in one draw-batch, after a
\* move that went out alone
C25_Witness ==
  /\ c2s.step = "frame"
  /\ wsc.latency = 180
  /\ Len(c2s.out) = 1 /\ c2s.out[1].type = "draw-batch"
  /\ Len(c2s.out[1].moves) = 2
  /\ c2s.moveAt >= 0

\* the waits of the specification, in ms, by attempt
Backoff == <<1000, 2000, 4000, 8000, 16000>>

\* C26: when the socket closes after fewer than 5 attempts without an open,
\* the k-th attempt is timed 1000 * 2^(k-1) ms later (1, 2, 4, 8, 16 s) and
\* starts no sooner; after 5 attempts a close starts no timer; an open puts
\* the count back to 0 and sends join-room with the username and the room id
\* the client last held, and an attempt connects with these.
C26_ReconnectBackoff ==
  [][/\ wsc'.reconnectAttempts <= 5
     /\ Stepped("close") =>
          IF wsc.reconnectAttempts < 5
          THEN LET k == wsc.reconnectAttempts + 1
               IN /\ wsc'.reconnectAttempts = k
                  /\ wsc'.timer = [set |-> TRUE, delay |-> Backoff[k],
                                   due |-> now + Backoff[k]]
          ELSE /\ wsc'.reconnectAttempts = 5
               /\ ~wsc'.timer.set
               /\ wsc'.readyState = "CLOSED"
     /\ Stepped("timer") =>
          /\ now >= wsc.timer.due
          /\ wsc.timer.delay = Backoff[wsc.reconnectAttempts]
          /\ wsc'.readyState = "CONNECTING"
          /\ wsc'.username = held.username /\ wsc'.roomId = held.roomId
          /\ wsc'.reconnectAttempts = wsc.reconnectAttempts
     /\ Stepped("open") =>
          /\ wsc'.reconnectAttempts = 0
          /\ c2s'.out[1] = JoinRoomSent(held.roomId, held.username)
          /\ \A n \in 2..Len(c2s'.out) : c2s'.out[n].type # "join-room"]_vars

\* the fifth attempt in a row starts, 31 s or more after the loss of a socket
\* that had joined a room
C26_Witness ==
  /\ c2s.step = "timer"
  /\ wsc.reconnectAttempts = 5 /\ wsc.readyState = "CONNECTING"
  /\ now >= 31000
  /\ held.roomId # Null /\ wsc.roomId = held.roomId

\* the characters the specification calls confusable
Confusable == {"0", "O", "1", "I", "L"}

\* C27: an id that generateId has returned holds no character of the
\* confusable set {0, O, 1, I, L}.
C27_NoConfusableCharacter ==
  (gid.pc = "returned") => \A n \in 1..Len(gid.id) : gid.id[n] \notin Confusable

\* the positions in the handler's calls of saveState and of the sends of a
\* canvas-rebuild
SaveStateAt == {n \in 1..Len(calls') : calls'[n].call = "saveState"}
RebuildSentAt ==
  {n \in 1..Len(calls') :
     calls'[n].call = "send" /\ calls'[n].msg.type = "canvas-rebuild"}

\* C28: a handler of undo-global, undo-my or redo-global that flips an
\* action calls saveState before it broadcasts canvas-rebuild.
C28_SaveBeforeRebuild ==
  [][(IsReq("undo-global") \/ IsReq("undo-my") \/ IsReq("redo-global"))
       /\ states' # states
     => /\ SaveStateAt # {} /\ RebuildSentAt # {}
        /\ \A n \in SaveStateAt, m \in RebuildSentAt : n < m]_vars

Rebuilds(c) ==
  /\ s2c[c] # <<>> /\ Head(s2c[c]).type = "canvas-rebuild"
  /\ s2c'[c] = Tail(s2c[c])
\* a blank canvas onto which every action of the log that is not undone has
\* been applied, in the order of the log
Replayed(actions) == applyState([canvas |-> {}, cache |-> {}], actions).canvas

\* C30: when a client has handled canvas-rebuild(state), its canvas is the
\* blank canvas with every action of state that is not undone applied in the
\* order of the log, whatever rebuilds it has handled before.
C30_RebuildIsReplay ==
  [][\A c \in Conns :
       Rebuilds(c) => canvas'[c] = Replayed(Head(s2c[c]).actions)]_vars

\* the callback of the last write in flight to the file of room r runs
LastWriteLands(r) ==
  /\ \E w \in writes : w.roomId = r /\ writes' = writes \ {w}
  /\ ~\E w \in writes' : w.roomId = r

\* C31: in a room that was never evicted every change of the log is followed
\* by a request to write it, so the newest request holds the log as it is;
\* when the last write in flight to the room's file has completed, the file
\* holds that newest snapshot, in whatever order the writes completed.
C31_NewestWriteWins ==
  [][\A r \in RoomId :
       LastWriteLands(r) /\ states[r].exists /\ ~evicted[r].exists
         => disk'[r] = toJSON(states[r])]_vars

\* C32: the sample the client records when it handles a pong is the time of
\* receipt minus the time at which the ping that this pong answers was sent,
\* also when a later ping has been sent in between.
C32_SampleIsRoundTrip ==
  [][Stepped("pong") =>
       LastOf(wsc'.latencyHistory) = now - Head(pongs)]_vars

\* the draw-batch messages among those sent in the step
BatchesSent ==
  {n \in 1..Len(c2s'.out) : c2s'.out[n].type = "draw-batch"}

StoredStrokes(actions) ==
  {actions[i].payload : i \in {j \in 1..Len(actions) : actions[j].type = "draw-end"}}

\* C34: every stroke in a room's log and in its file has all its
\* coordinates (start anchor and path points) within [-10000, 10000].
C34_StoredCoordinatesBounded ==
  \A r \in RoomId :
    \A stroke \in StoredStrokes(states[r].actions) \cup StoredStrokes(disk[r].actions) :
      stroke.abs <= 10000

\* C35: a connection is in the user set of at most one room, the one that
\* ws.roomId names, and of none once its disconnect has been handled.
C35_MemberOfCurrentRoomOnly ==
  \A c \in Conns, r \in RoomId :
    c \in rooms[r].users => ws[c].roomId = r /\ ws[c].readyState # "CLOSED"

\* C36: of each connection that leaves, every other connection is written
\* at most one user-left, whichever events its socket raises.
C36_OneUserLeftPerClose ==
  \A c \in Conns, d \in Conns : userLeft[c][d] <= 1

\* C37: a join-room that names no room leaves every resident room as it
\* was, its users and its log, and puts the connection into a room whose
\* log is empty.
C37_GeneratedRoomIsFresh ==
  [][(req'.type = "join-room" /\ ~Truthy(sanitizeRoomId(req'.roomId)))
       => /\ \A r \in RoomId :
               rooms[r].resident /\ r # ws'[req'.from].roomId
                 => rooms'[r] = rooms[r] /\ states'[r] = states[r]
          /\ ~rooms[ws'[req'.from].roomId].resident
          /\ states'[ws'[req'.from].roomId].actions = <<>>]_vars

\* a socket was written an error with this text in the step
ErrorSent(text) ==
  \E c \in Conns :
    /\ Len(s2c'[c]) > Len(s2c[c])
    /\ LastOf(s2c'[c]).type = "error" /\ LastOf(s2c'[c]).message = text

\* C38: a frame that parses is never answered with the error "Invalid
\* JSON", and one that parses to a message with a type with no error at all.
C38_ParsedIsNotInvalidJSON ==
  [][(IsReq("message") /\ JSONparse(req'.data).ok)
       => /\ ~ErrorSent("Invalid JSON")
          /\ (JSONparse(req'.data).truthy /\ ~NoType(JSONparse(req'.data).type))
               => \A text \in {"Invalid JSON", "Missing type"} : ~ErrorSent(text)]_vars

\* C39: the moves of a stroke go out in the order of their capture: a step
\* sends no move older than one that went out in an earlier step.
C39_MovesLeaveInCaptureOrder ==
  [][\A d \in MovesIn(c2s'.out) : d >= c2s.latest]_vars

\* C40: once the application has called disconnect(), the client opens no
\* socket and sends no join-room until the application connects again.
C40_DisconnectStaysDisconnected ==
  [][(held.disconnected /\ held'.disconnected)
       => /\ wsc'.readyState = "CONNECTING" => wsc.readyState = "CONNECTING"
          /\ \A n \in DOMAIN c2s'.out : c2s'.out[n].type # "join-room"]_vars

====
